---- MODULE Spec2Model ----
(***************************************************************************)
(* Model of relm-plugin-core-go: the plugin registries of the auth,         *)
(* storage, general and cache packages, their C-ABI boundary functions,     *)
(* and the global configuration store of the config package.                *)
(*                                                                          *)
(* One shared library hosts one plugin kind, so a behaviour of Spec fixes   *)
(* `kind` in Init and only that package's functions act.                    *)
(***************************************************************************)
EXTENDS Integers, Sequences, FiniteSets, TLC

\* ------------------------------------------------------------------ bounds
\* longest byte string a plugin reports as a name or an error text
MaxNameLen == 2
\* longest run of consecutive failing lazy initialisations that is explored
MaxFail == 2

\* ------------------------------------------------------------- Go values
\* the nil interface value / nil function value
Nil == "nil"

\* plugin instances handed to RegisterPlugin / ExportPlugin / SetProvider
Plugins == {"A", "B"}

\* factory callbacks handed to SetPluginInitializer
Factories == {"F1", "F2"}

\* one package (one shared library) per plugin kind
Kinds == {"auth", "storage", "general", "cache"}

\* bytes a plugin may put in a string: NUL and two printable bytes
StrBytes == {0, 97, 98}

ByteSeqs == UNION {[1..n -> StrBytes] : n \in 0..MaxNameLen}

\* A Go string is a literal of the source followed by plugin-supplied bytes.
GoStr(lit, tail) == [lit |-> lit, tail |-> tail]

\* the strings a plugin can return from a name or Error() method
PluginStrings == {GoStr("", b) : b \in ByteSeqs}

\* s == ""
IsEmptyStr(s) == s.lit = "" /\ s.tail = <<>>

\* prefix + err.Error()
Concat(prefix, s) == GoStr(prefix, s.tail)

\* ------------------------------------------------------------ C strings
\* what the host reads from a char*: the bytes before the first NUL
RECURSIVE UpToNul(_)
UpToNul(b) ==
    IF b = <<>> \/ Head(b) = 0 THEN <<>> ELSE <<Head(b)>> \o UpToNul(Tail(b))

NullPtr == [null |-> TRUE, lit |-> "", bytes |-> <<>>]

\* C.CString(s): a malloc'ed NUL-terminated copy of s
CCString(s) == [null |-> FALSE, lit |-> s.lit, bytes |-> UpToNul(s.tail)]

\* the C string the host would read if the Go string crossed unchanged
AsHostString(s) == [null |-> FALSE, lit |-> s.lit, bytes |-> s.tail]

\* cString of the auth and storage packages: "" becomes a null pointer
cString(s) == IF IsEmptyStr(s) THEN NullPtr ELSE CCString(s)

\* a char* argument of the host: null, "", or some text
ArgVals == {"null", "empty", "text"}

\* a char* argument that carries JSON
JsonArgVals == {"null", "empty", "malformed", "wellformed"}

\* goString: a null pointer reads as ""
goString(a) == IF a = "null" THEN "empty" ELSE a

\* a decoder that takes any non-empty text for a request
UnmarshalOk_AnyText(p) == p \in {"malformed", "wellformed"}

\* json.Unmarshal of a request payload into a struct succeeds
UnmarshalOk(p) == p = "wellformed"

\* ------------------------------------------------ configuration documents
\* top-level keys of a configuration blob: the two searched sections and a
\* raw top-level key
TopKeys == {"plugin_config", "server_config", "k"}

\* setting names inside a section
CfgKeys == {"k"}

\* setting values
CfgValues == {"v1", "v2"}

EmptyMap == [x \in {} |-> "v1"]

SectionMaps == UNION {[D -> CfgValues] : D \in SUBSET CfgKeys}

\* a decoded JSON value (interface{}): a string or an object of strings
JsonValues ==
    {[t |-> "str", s |-> v, m |-> EmptyMap] : v \in CfgValues}
        \cup {[t |-> "map", s |-> "", m |-> m] : m \in SectionMaps}

JsonObjects == UNION {[D -> JsonValues] : D \in SUBSET TopKeys}

EmptyObject == [x \in {} |-> [t |-> "str", s |-> "v1", m |-> EmptyMap]]

\* the text handed to SetConfigFromJSON: "", text that is not JSON, the JSON
\* literal null, a JSON array, or a JSON object
JsonDoc(kind, obj) == [kind |-> kind, obj |-> obj]

JsonDocs ==
    {JsonDoc(k, EmptyObject) : k \in {"empty", "malformed", "null", "array"}}
        \cup {JsonDoc("object", o) : o \in JsonObjects}

\* var globalConfig map[string]interface{}: nil, or a map
NilConfig == [isnil |-> TRUE, m |-> EmptyObject]

MapConfig(m) == [isnil |-> FALSE, m |-> m]

\* json.Unmarshal(text, &map): a syntax error or a non-object leaves the map
\* alone, null sets it to nil, an object is stored key by key into the
\* existing map (or into a fresh one when the map is nil)
UnmarshalIntoMap(doc, cfg) ==
    CASE doc.kind \in {"empty", "malformed", "array"} ->
            [err |-> TRUE, cfg |-> cfg]
      [] doc.kind = "null" ->
            [err |-> FALSE, cfg |-> NilConfig]
      [] OTHER ->
            [err |-> FALSE,
             cfg |-> IF cfg.isnil
                     THEN MapConfig(doc.obj)
                     ELSE MapConfig(
                            [key \in DOMAIN cfg.m \cup DOMAIN doc.obj |->
                               IF key \in DOMAIN doc.obj
                               THEN doc.obj[key] ELSE cfg.m[key]])]

\* SetConfigFromJSON(configJSON): [err, cfg] for the store cfg
SetConfigFromJSON(doc, cfg) ==
    IF doc.kind = "empty"
    THEN [err |-> TRUE, cfg |-> cfg]
    ELSE UnmarshalIntoMap(doc, cfg)

\* value, found of a section lookup: globalConfig[section].(map)[key].(string)
SectionLookup(cfg, section, key) ==
    IF /\ ~cfg.isnil
       /\ section \in DOMAIN cfg.m
       /\ cfg.m[section].t = "map"
       /\ key \in DOMAIN cfg.m[section].m
    THEN [value |-> cfg.m[section].m[key], found |-> TRUE]
    ELSE [value |-> "", found |-> FALSE]

\* GetPluginConfigValue(key)
GetPluginConfigValue(cfg, key) == SectionLookup(cfg, "plugin_config", key)

\* GetServerConfigValue(key)
GetServerConfigValue(cfg, key) == SectionLookup(cfg, "server_config", key)

\* GetConfigValue(key): plugin_config first, then server_config
GetConfigValue(cfg, key) ==
    IF SectionLookup(cfg, "plugin_config", key).found
    THEN SectionLookup(cfg, "plugin_config", key)
    ELSE SectionLookup(cfg, "server_config", key)

\* ------------------------------------------- file fallback and environment
\* strings.ToUpper on the strings that occur as plugin types and item names
ToUpper(s) ==
    CASE s \in {"storage", "Storage", "STORAGE"} -> "STORAGE"
      [] s \in {"auth", "AUTH"} -> "AUTH"
      [] s \in {"bucket", "BUCKET"} -> "BUCKET"
      [] s \in {"region", "REGION"} -> "REGION"
      [] OTHER -> s

\* strings.EqualFold
EqualFold(a, b) == ToUpper(a) = ToUpper(b)

\* fmt.Sprintf("%s_%s", ToUpper(pluginType), ToUpper(name))
EnvVarName(pluginType, name) == <<ToUpper(pluginType), ToUpper(name)>>

\* the environment variables the model follows
EnvNames == {<<"STORAGE", "BUCKET">>, <<"STORAGE", "REGION">>, <<"AUTH", "BUCKET">>}

\* a text is a sequence of pieces, each a character or a word taken whole;
\* the values of the modelled variables (the empty sequence is "")
EnvValues == {<<>>, <<"env-value">>, <<"file-value">>, <<"other-value">>}

\* os.Getenv(name) on the environment e, a map from the names that are set
\* to their values: "" when the variable is unset
Getenv(e, name) == IF name \in DOMAIN e THEN e[name] ELSE <<>>

\* os.Setenv(name, value)
Setenv(e, name, value) ==
    [n \in DOMAIN e \cup {name} |-> IF n = name THEN value ELSE e[n]]

\* the YAML file the loader finds: none, unparseable, or a list of plugin
\* definitions
NoFile == [found |-> FALSE, valid |-> FALSE, plugins |-> <<>>]

BadFile == [found |-> TRUE, valid |-> FALSE, plugins |-> <<>>]

RealmFile ==
    [found |-> TRUE, valid |-> TRUE,
     plugins |->
        << [type |-> "auth",
            config |-> << [name |-> "bucket", value |-> <<"other-value">>] >>],
           [type |-> "Storage",
            config |-> << [name |-> "bucket", value |-> <<"file-value">>],
                          [name |-> "region", value |-> <<"file-value">>] >>] >>]

YamlFiles == {NoFile, BadFile, RealmFile}

\* an inner loop that sets each item's variable whatever the environment holds
RECURSIVE SetItems_Overwrite(_, _, _)
SetItems_Overwrite(items, pluginType, e) ==
    IF items = <<>> THEN e
    ELSE LET name == EnvVarName(pluginType, Head(items).name)
             e1 == IF name \in EnvNames
                   THEN Setenv(e, name, Head(items).value)
                   ELSE e
         IN SetItems_Overwrite(Tail(items), pluginType, e1)

\* the inner loop: set each item's variable unless os.Getenv gives a
\* non-empty value for it
RECURSIVE SetItems(_, _, _)
SetItems(items, pluginType, e) ==
    IF items = <<>> THEN e
    ELSE LET name == EnvVarName(pluginType, Head(items).name)
             e1 == IF name \in EnvNames /\ Getenv(e, name) = <<>>
                   THEN Setenv(e, name, Head(items).value)
                   ELSE e
         IN SetItems(Tail(items), pluginType, e1)

\* the outer loop: the first definition whose type matches, then break
RECURSIVE SetFirstMatch(_, _, _)
SetFirstMatch(defs, pluginType, e) ==
    IF defs = <<>> THEN e
    ELSE IF EqualFold(Head(defs).type, pluginType)
         THEN SetItems(Head(defs).config, pluginType, e)
         ELSE SetFirstMatch(Tail(defs), pluginType, e)

\* the file-based LoadConfigAndSetEnvVars(pluginType): [err, env]
FileLoadConfigAndSetEnvVars(file, pluginType, e) ==
    IF ~file.found THEN [err |-> FALSE, env |-> e]
    ELSE IF ~file.valid THEN [err |-> TRUE, env |-> e]
    ELSE [err |-> FALSE, env |-> SetFirstMatch(file.plugins, pluginType, e)]

\* config.LoadConfigAndSetEnvVars(pluginType): the file is read only while
\* no blob has been pushed
LoadConfigAndSetEnvVars(cfg, file, pluginType, e) ==
    IF cfg.isnil
    THEN FileLoadConfigAndSetEnvVars(file, pluginType, e)
    ELSE [err |-> FALSE, env |-> e]

\* ------------------------------------------------------- plugin behaviour
\* texts a plugin's error may carry (Error() may be the empty string)
ErrTexts == {GoStr("", <<>>), GoStr("", <<97>>)}

\* what one call of a plugin method does: return normally, return an error,
\* or panic; b, s and d are the returned bool, string and byte-slice
Outcome(t, e, b, s, d) == [t |-> t, e |-> e, b |-> b, s |-> s, d |-> d]

NoStr == GoStr("", <<>>)

\* methods returning (value, error) or error
ErrOutcomes ==
    {Outcome("ok", NoStr, TRUE, NoStr, "bytes"), Outcome("panic", NoStr, FALSE, NoStr, "nil")}
        \cup {Outcome("err", e, FALSE, NoStr, "nil") : e \in ErrTexts}

\* methods returning bool
BoolOutcomes ==
    {Outcome("ok", NoStr, b, NoStr, "nil") : b \in BOOLEAN}
        \cup {Outcome("panic", NoStr, FALSE, NoStr, "nil")}

\* methods returning string
StringOutcomes ==
    {Outcome("ok", NoStr, TRUE, n, "nil") : n \in PluginStrings}
        \cup {Outcome("panic", NoStr, FALSE, NoStr, "nil")}

\* methods returning ([]byte, error): the slice may be empty
BytesOutcomes ==
    ErrOutcomes \cup {Outcome("ok", NoStr, TRUE, NoStr, "nil")}

\* GenerateURL returns *string: nil, or a pointer to a string
UrlOutcomes ==
    StringOutcomes \cup {Outcome("ok", NoStr, FALSE, NoStr, "nil")}

\* what one call of a factory returns: (plugin, err)
FactoryOutcomes == [plugin : Plugins \cup {Nil}, err : BOOLEAN]

\* ------------------------------------------------------- boundary results
\* what the host gets back: an FFIResult, a char*, a bool, an int, or
\* nothing at all because the panic unwound into the host
Result(shape, success, data, error_msg, str, b) ==
    [shape |-> shape, success |-> success, data |-> data,
     error_msg |-> error_msg, str |-> str, b |-> b]

FFIResult(success, data, error_msg) ==
    Result("FFIResult", success, data, error_msg, NullPtr, FALSE)

CharPtr(ptr) == Result("cstr", FALSE, "nil", NullPtr, ptr, FALSE)

CBool(b) == Result("bool", FALSE, "nil", NullPtr, NullPtr, b)

\* C.int 1 / 0 of the general package
CInt(b) == Result("int", FALSE, "nil", NullPtr, NullPtr, b)

\* no value reaches the host: the process dies
Crash == Result("crash", FALSE, "nil", NullPtr, NullPtr, FALSE)

NoResult == Result("none", FALSE, "nil", NullPtr, NullPtr, FALSE)

\* newSuccessResult(data): data is nil when len(data) = 0
newSuccessResult(d) == FFIResult(TRUE, d, NullPtr)

\* newSuccessJSONResult(v): json.Marshal never yields zero bytes
newSuccessJSONResult == newSuccessResult("bytes")

\* newSuccessEmptyResult() / newSuccessEmpty()
newSuccessEmptyResult == FFIResult(TRUE, "nil", NullPtr)

\* newErrorResult(msg)
newErrorResult(msg) == FFIResult(FALSE, "nil", cString(msg))

\* the zero C.FFIResult a function hands back after its deferred recover()
\* ran: success false, no data, no message
ZeroFFIResult == FFIResult(FALSE, "nil", NullPtr)

Lit(text) == GoStr(text, <<>>)

\* ------------------------------------------------------------------ state
VARIABLES
    kind,               \* the package this library was built from
    alive,              \* "running", "crashed" (panic or fault reached the host), "exited" (log.Fatal)
    registeredPlugin,   \* auth / storage: var registeredPlugin
    pluginInitializer,  \* auth / storage: var pluginInitializer
    provider,           \* cache: var provider
    pluginInstance,     \* general: var pluginInstance
    isInitialized,      \* general: var isInitialized
    globalConfig,       \* config: var globalConfig
    env,                \* the process environment (os.Getenv / os.Setenv)
    yamlFile,           \* the configuration file on disk
    failStreak,         \* history: consecutive failed factory invocations
    lastReg,            \* history: argument of the latest RegisterPlugin call
    justReg,            \* history: the previous call was a registration
    last,               \* history: the latest call, its inputs and its result
    threads,            \* concurrent callers: where each goroutine stands in its call
    created,            \* history: number of instances the factory has made
    explicitReg,        \* history: RegisterPlugin has been called
    owned,              \* the kinds of heap buffer the host holds and has not freed
    store,              \* the entries of the map-backed cache provider
    returned,           \* the map a caller got from GetGlobalConfig
    pushed,             \* history: a call of config.SetConfigFromJSON has returned nil
    exported,           \* history: the plugins handed to the general ExportPlugin so far
    cleaned,            \* history: the instance cleanup_plugin called Cleanup on, until the next registration
    inited              \* history: the general plugin whose Initialize returned true, until its Cleanup returns true

vars ==
    <<kind, alive, registeredPlugin, pluginInitializer, provider,
      pluginInstance, isInitialized, globalConfig, env, yamlFile,
      failStreak, lastReg, justReg, last, threads, created, explicitReg,
      owned, store, returned, pushed, exported, cleaned, inited>>

\* the variables only concurrent callers move
concVars == <<threads, created, explicitReg>>

\* what lies outside the library's package variables and no export reads:
\* the host's buffers, the reference provider's entries, a caller's copy of
\* the configuration, the history of the config package's own API
hostVars == <<owned, store, returned, pushed, exported, cleaned, inited>>

\* no map has been taken from GetGlobalConfig
NotTaken == [taken |-> FALSE, m |-> EmptyObject, shared |-> {}]

\* the record kept of a call
\* (of the string arguments only whether one was null and whether one was
\* empty is kept)
AnyNull(args) == \E i \in DOMAIN args : args[i] \in {"null", "null0", "nullN"}

AnyEmpty(args) == \E i \in DOMAIN args : args[i] = "empty"

NoLazy == [status |-> "none", made |-> Nil, err |-> FALSE]

\* out is what the invoked plugin method did: t is "none" when no method was
\* invoked, reported is the string a method that returned normally handed
\* back, said whether a method that returned normally returned true
Call(fn, args, payload, ret, got, invoked, op, lazy, fails, afterReg, out) ==
    [fn |-> fn, anyNull |-> AnyNull(args), anyEmpty |-> AnyEmpty(args),
     payload |-> payload, ret |-> ret, got |-> got,
     invoked |-> invoked, op |-> op, lazy |-> lazy,
     fails |-> IF lazy.status = "none" THEN 0 ELSE fails,
     afterReg |-> afterReg,
     t |-> IF invoked = Nil THEN "none" ELSE out.t,
     reported |-> IF invoked # Nil /\ out.t = "ok" THEN out.s ELSE NoStr,
     said |-> invoked # Nil /\ out.t = "ok" /\ out.b]

\* no plugin method called
NoOutcome == Outcome("ok", NoStr, FALSE, NoStr, "nil")

NoCall == Call("", <<>>, "none", NoResult, Nil, Nil, "", NoLazy, 0, FALSE, NoOutcome)

\* ------------------------------------------------- auth / storage registry
\* a registration that keeps an instance already held
RegisterPlugin_KeepFirst(slot, plugin) == IF slot = Nil THEN plugin ELSE slot

\* RegisterPlugin(plugin): the value the slot holds afterwards
RegisterPlugin(slot, plugin) == plugin

\* SetPluginInitializer(initializer): the value the variable holds afterwards
SetPluginInitializer(old, initializer) == initializer

\* a test of the factory's result that forgets err
FactoryAccepted_IgnoresErr(fo) == fo.plugin # Nil

\* the factory's result is registered only when err == nil && plugin != nil
FactoryAccepted(fo) == ~fo.err /\ fo.plugin # Nil

\* a lazy initialisation that returns the factory's plugin without storing it
GetRegisteredPlugin_NoStore(k, slot, init, fo, cfg, file, e) ==
    IF slot = Nil /\ init # Nil
    THEN [plugin |-> IF FactoryAccepted(fo) THEN fo.plugin ELSE slot,
          slot |-> slot, ran |-> TRUE, env |-> e]
    ELSE [plugin |-> slot, slot |-> slot, ran |-> FALSE, env |-> e]

\* GetRegisteredPlugin() of package k: the plugin returned, the slot and the
\* environment afterwards, and whether the factory was invoked
GetRegisteredPlugin(k, slot, init, fo, cfg, file, e) ==
    IF slot = Nil /\ init # Nil
    THEN LET e1 == IF k = "storage"
                   THEN LoadConfigAndSetEnvVars(cfg, file, "storage", e).env
                   ELSE e
             s1 == IF FactoryAccepted(fo) THEN RegisterPlugin(slot, fo.plugin) ELSE slot
         IN [plugin |-> s1, slot |-> s1, ran |-> TRUE, env |-> e1]
    ELSE [plugin |-> slot, slot |-> slot, ran |-> FALSE, env |-> e]

Fetch(fo) ==
    GetRegisteredPlugin(kind, registeredPlugin, pluginInitializer, fo,
                        globalConfig, yamlFile, env)

\* the factory results that matter to a call: the factory is invoked only on
\* an empty slot with an initializer set
FactoryChoices ==
    IF registeredPlugin = Nil /\ pluginInitializer # Nil
    THEN FactoryOutcomes
    ELSE {[plugin |-> Nil, err |-> FALSE]}

\* the plugin behaviours that matter to a call: those of the method when the
\* call reaches the plugin
OutcomeChoices(invoked, outs) == IF invoked = Nil THEN {NoOutcome} ELSE outs

\* what a GetRegisteredPlugin() did about lazy initialisation: nothing, or it
\* ran the factory, which returned (made, err), and the slot got filled or not
LazyStatus(g, fo) ==
    IF ~g.ran THEN NoLazy
    ELSE [status |-> IF g.slot # Nil THEN "ok" ELSE "failed",
          made |-> fo.plugin, err |-> fo.err]

\* the effect of one GetRegisteredPlugin() on the registry and its history
RegistryStep(g) ==
    /\ g.ran /\ g.slot = Nil => failStreak < MaxFail
    /\ registeredPlugin' = g.slot
    /\ env' = g.env
    /\ failStreak' = IF ~g.ran THEN failStreak
                     ELSE IF g.slot # Nil THEN 0 ELSE failStreak + 1
    /\ lastReg' = IF g.ran /\ g.slot # Nil THEN g.slot ELSE lastReg
    /\ justReg' = FALSE

\* a call enters the library only after the host took the previous result
Idle == alive = "running" /\ last = NoCall

Running(k) == kind = k /\ Idle

\* a panic in a plugin method: functions with a deferred recover() return
\* the zero value of their result type, the others let it unwind
OnPanic(recovers, zero) == IF recovers THEN zero ELSE Crash

\* API: RegisterPlugin(plugin), auth and storage
DoRegisterPlugin(p) ==
    /\ kind \in {"auth", "storage"} /\ Idle
    /\ registeredPlugin' = RegisterPlugin(registeredPlugin, p)
    /\ lastReg' = p
    /\ justReg' = (p # Nil)
    /\ failStreak' = 0
    /\ last' = Call("RegisterPlugin", <<>>, "none", NoResult, registeredPlugin, Nil, "",
                    NoLazy, failStreak, FALSE, NoOutcome)
    /\ UNCHANGED <<kind, alive, pluginInitializer, provider, pluginInstance,
                   isInitialized, globalConfig, env, yamlFile>>

\* API: SetPluginInitializer(initializer), auth and storage
DoSetPluginInitializer(f) ==
    /\ kind \in {"auth", "storage"} /\ Idle
    /\ pluginInitializer' = SetPluginInitializer(pluginInitializer, f)
    /\ justReg' = FALSE
    /\ failStreak' = 0
    /\ last' = Call("SetPluginInitializer", <<>>, "none", NoResult, Nil, Nil, "",
                    NoLazy, failStreak, FALSE, NoOutcome)
    /\ UNCHANGED <<kind, alive, registeredPlugin, provider, pluginInstance,
                   isInitialized, globalConfig, env, yamlFile, lastReg>>

\* API: GetRegisteredPlugin(), auth and storage
DoGetRegisteredPlugin(fo) ==
    /\ kind \in {"auth", "storage"} /\ Idle
    /\ fo \in FactoryChoices
    /\ LET g == Fetch(fo)
       IN /\ RegistryStep(g)
          /\ last' = Call("GetRegisteredPlugin", <<>>, "none", NoResult, g.plugin,
                          Nil, "", LazyStatus(g, fo), failStreak, justReg, NoOutcome)
    /\ UNCHANGED <<kind, alive, pluginInitializer, provider, pluginInstance,
                   isInitialized, globalConfig, yamlFile>>

\* API: ExportPlugin(plugin), auth and storage: log.Fatal on a nil plugin or
\* an empty name, otherwise the slot is set and the caller blocks for ever
DoExportPlugin(p, out) ==
    /\ kind \in {"auth", "storage"} /\ Idle
    /\ out \in StringOutcomes
    /\ IF p = Nil
       THEN /\ alive' = "exited"
            /\ UNCHANGED <<registeredPlugin, lastReg, justReg, failStreak>>
            /\ last' = Call("ExportPlugin", <<>>, "none", NoResult, Nil, Nil, "",
                            NoLazy, failStreak, FALSE, NoOutcome)
       ELSE /\ registeredPlugin' = RegisterPlugin(registeredPlugin, p)
            /\ lastReg' = p
            /\ justReg' = TRUE
            /\ failStreak' = 0
            /\ alive' = IF out.t = "panic" THEN "crashed"
                        ELSE IF IsEmptyStr(out.s) THEN "exited" ELSE "running"
            /\ last' = Call("ExportPlugin", <<>>, "none", NoResult, Nil, p,
                            "ProviderName", NoLazy, failStreak, FALSE, out)
    /\ UNCHANGED <<kind, pluginInitializer, provider, pluginInstance,
                   isInitialized, globalConfig, env, yamlFile>>

\* ------------------------------------------------- auth boundary functions
\* an FFIResult-returning export: its name, the number of plain string
\* arguments, whether a JSON request follows them, whether success carries
\* no data, the plugin method it forwards to, and its two message texts
AuthFn(name, nargs, json, empty, op, prefix, nullmsg) ==
    [name |-> name, nargs |-> nargs, json |-> json, empty |-> empty,
     op |-> op, prefix |-> prefix, nullmsg |-> nullmsg]

AuthEnvelopeFns ==
    { AuthFn("check_user_access", 3, FALSE, FALSE, "CheckUserAccess",
             "Failed to check user access: ",
             "userID, resource, and action cannot be null"),
      AuthFn("create_user", 0, TRUE, FALSE, "CreateUser",
             "Failed to create user: ", "request cannot be null"),
      AuthFn("get_user_details", 1, FALSE, FALSE, "GetUserDetails",
             "Failed to get user details: ", "userID cannot be null"),
      AuthFn("get_user_details_by_email", 1, FALSE, FALSE, "GetUserDetailsByEmail",
             "Failed to get user details by email: ", "email cannot be null"),
      AuthFn("get_plugin_info", 0, FALSE, FALSE, "GetPluginInfo",
             "Failed to get plugin info: ", ""),
      AuthFn("get_user_groups", 1, FALSE, FALSE, "GetUserGroups",
             "Failed to get user groups: ", "userID cannot be null"),
      AuthFn("search_users", 1, FALSE, FALSE, "SearchUsers",
             "Failed to search users: ", "query cannot be null"),
      AuthFn("delete_user", 1, FALSE, TRUE, "DeleteUser",
             "Failed to delete user: ", "userID cannot be null"),
      AuthFn("create_oauth_client", 0, TRUE, FALSE, "CreateOAuthClient",
             "Failed to create OAuth client: ", "request cannot be null"),
      AuthFn("get_oauth_client", 1, FALSE, FALSE, "GetOAuthClient",
             "Failed to get OAuth client: ", "clientID cannot be null"),
      AuthFn("update_oauth_client", 1, TRUE, FALSE, "UpdateOAuthClient",
             "Failed to update OAuth client: ",
             "clientID and request cannot be null"),
      AuthFn("delete_oauth_client", 1, FALSE, TRUE, "DeleteOAuthClient",
             "Failed to delete OAuth client: ", "clientID cannot be null"),
      AuthFn("list_oauth_clients", 0, FALSE, FALSE, "ListOAuthClients",
             "Failed to list OAuth clients: ", ""),
      AuthFn("list_user_authorized_clients", 1, FALSE, FALSE,
             "ListUserAuthorizedClients",
             "Failed to list user authorized clients: ", "userID cannot be null"),
      AuthFn("revoke_user_client_authorization", 2, FALSE, TRUE,
             "RevokeUserClientAuthorization",
             "Failed to revoke user client authorization: ",
             "userID and clientID cannot be null") }

\* an auth export that lacks the `if plugin == nil` test: the method call on
\* the nil interface panics and the deferred recover() returns the zero value
AuthEnvelope_NoNilTest(f, plugin, args, payload, out) ==
    IF AnyNull(args) \/ payload = "null"
    THEN [ret |-> newErrorResult(Lit(f.nullmsg)), invoked |-> Nil]
    ELSE IF f.json /\ ~UnmarshalOk(payload)
    THEN [ret |-> newErrorResult(Lit("Failed to parse request JSON: ")),
          invoked |-> Nil]
    ELSE [ret |-> CASE plugin = Nil \/ out.t = "panic" -> OnPanic(TRUE, ZeroFFIResult)
                    [] out.t = "err" -> newErrorResult(Concat(f.prefix, out.e))
                    [] OTHER -> IF f.empty THEN newSuccessEmptyResult
                                ELSE newSuccessJSONResult,
          invoked |-> plugin]

\* an auth export that decodes the request before it tests the pointers and
\* tests the pointers before it looks at the plugin
AuthEnvelope_DecodeFirst(f, plugin, args, payload, out) ==
    IF f.json /\ payload # "null" /\ ~UnmarshalOk(payload)
    THEN [ret |-> newErrorResult(Lit("Failed to parse request JSON: ")),
          invoked |-> Nil]
    ELSE IF AnyNull(args) \/ payload = "null"
    THEN [ret |-> newErrorResult(Lit(f.nullmsg)), invoked |-> Nil]
    ELSE IF plugin = Nil
    THEN [ret |-> newErrorResult(Lit("No plugin registered")), invoked |-> Nil]
    ELSE [ret |-> CASE out.t = "panic" -> OnPanic(TRUE, ZeroFFIResult)
                    [] out.t = "err" -> newErrorResult(Concat(f.prefix, out.e))
                    [] OTHER -> IF f.empty THEN newSuccessEmptyResult
                                ELSE newSuccessJSONResult,
          invoked |-> plugin]

\* the body of an FFIResult-returning auth export after GetRegisteredPlugin()
\* returned plugin: [ret, invoked]
AuthEnvelope(f, plugin, args, payload, out) ==
    IF plugin = Nil
    THEN [ret |-> newErrorResult(Lit("No plugin registered")), invoked |-> Nil]
    ELSE IF AnyNull(args) \/ payload = "null"
    THEN [ret |-> newErrorResult(Lit(f.nullmsg)), invoked |-> Nil]
    ELSE IF f.json /\ ~UnmarshalOk(payload)
    THEN [ret |-> newErrorResult(Lit("Failed to parse request JSON: ")),
          invoked |-> Nil]
    ELSE [ret |-> CASE out.t = "panic" -> OnPanic(TRUE, ZeroFFIResult)
                    [] out.t = "err" -> newErrorResult(Concat(f.prefix, out.e))
                    [] OTHER -> IF f.empty THEN newSuccessEmptyResult
                                ELSE newSuccessJSONResult,
          invoked |-> plugin]

AliveAfter(ret) == IF ret.shape = "crash" THEN "crashed" ELSE "running"

\* export: check_user_access ... revoke_user_client_authorization
AuthEnvelopeCall(f, args, payload, fo, out) ==
    /\ Running("auth")
    /\ args \in [1..f.nargs -> ArgVals]
    /\ payload \in (IF f.json THEN JsonArgVals ELSE {"none"})
    /\ fo \in FactoryChoices
    /\ LET g == Fetch(fo)
           r == AuthEnvelope(f, g.plugin, args, payload, out)
       IN /\ out \in OutcomeChoices(r.invoked, ErrOutcomes)
          /\ RegistryStep(g)
          /\ alive' = AliveAfter(r.ret)
          /\ last' = Call(f.name, args, payload, r.ret, g.plugin, r.invoked,
                          IF r.invoked = Nil THEN "" ELSE f.op,
                          LazyStatus(g, fo), failStreak, justReg, out)
    /\ UNCHANGED <<kind, pluginInitializer, provider, pluginInstance,
                   isInitialized, globalConfig, yamlFile>>

\* a provider_name() that answers with the sentinel although a plugin is held
AuthProviderName_Sentinel(plugin, out) ==
    [ret |-> CharPtr(cString(Lit("unknown"))), invoked |-> plugin]

\* the body of auth provider_name(): [ret, invoked]
AuthProviderName(plugin, out) ==
    IF plugin = Nil
    THEN [ret |-> CharPtr(cString(Lit("unknown"))), invoked |-> Nil]
    ELSE [ret |-> IF out.t = "panic" THEN OnPanic(TRUE, CharPtr(NullPtr))
                  ELSE CharPtr(cString(out.s)),
          invoked |-> plugin]

\* export: provider_name
AuthProviderNameCall(fo, out) ==
    /\ Running("auth")
    /\ fo \in FactoryChoices
    /\ LET g == Fetch(fo)
           r == AuthProviderName(g.plugin, out)
       IN /\ out \in OutcomeChoices(r.invoked, StringOutcomes)
          /\ RegistryStep(g)
          /\ alive' = AliveAfter(r.ret)
          /\ last' = Call("provider_name", <<>>, "none", r.ret, g.plugin, r.invoked,
                          IF r.invoked = Nil THEN "" ELSE "ProviderName",
                          LazyStatus(g, fo), failStreak, justReg,
                          out)
    /\ UNCHANGED <<kind, pluginInitializer, provider, pluginInstance,
                   isInitialized, globalConfig, yamlFile>>

\* the bool-returning auth exports: name, string arguments, plugin method
AuthBoolFns ==
    { [name |-> "health_check", nargs |-> 0, op |-> "HealthCheck"],
      [name |-> "validate_user", nargs |-> 1, op |-> "ValidateUser"],
      [name |-> "cleanup_plugin", nargs |-> 0, op |-> "Cleanup"] }

\* a cleanup_plugin that answers true whenever it reached the plugin
AuthBool_IgnoreErr(f, plugin, args, out) ==
    IF plugin = Nil THEN [ret |-> CBool(FALSE), invoked |-> Nil]
    ELSE IF AnyNull(args) THEN [ret |-> CBool(FALSE), invoked |-> Nil]
    ELSE [ret |-> CASE out.t = "panic" -> OnPanic(TRUE, CBool(FALSE))
                    [] f.name = "cleanup_plugin" -> CBool(TRUE)
                    [] OTHER -> CBool(out.b),
          invoked |-> plugin]

\* the body of health_check / validate_user / cleanup_plugin: [ret, invoked]
AuthBool(f, plugin, args, out) ==
    IF plugin = Nil THEN [ret |-> CBool(FALSE), invoked |-> Nil]
    ELSE IF AnyNull(args) THEN [ret |-> CBool(FALSE), invoked |-> Nil]
    ELSE [ret |-> CASE out.t = "panic" -> OnPanic(TRUE, CBool(FALSE))
                    [] f.name = "cleanup_plugin" -> CBool(out.t = "ok")
                    [] OTHER -> CBool(out.b),
          invoked |-> plugin]

\* export: health_check, validate_user, cleanup_plugin
AuthBoolCall(f, args, fo, out) ==
    /\ Running("auth")
    /\ args \in [1..f.nargs -> ArgVals]
    /\ fo \in FactoryChoices
    /\ LET g == Fetch(fo)
           r == AuthBool(f, g.plugin, args, out)
       IN /\ out \in OutcomeChoices(r.invoked,
                     IF f.name = "cleanup_plugin" THEN ErrOutcomes ELSE BoolOutcomes)
          /\ RegistryStep(g)
          /\ alive' = AliveAfter(r.ret)
          /\ last' = Call(f.name, args, "none", r.ret, g.plugin, r.invoked,
                          IF r.invoked = Nil THEN "" ELSE f.op,
                          LazyStatus(g, fo), failStreak, justReg, out)
    /\ UNCHANGED <<kind, pluginInitializer, provider, pluginInstance,
                   isInitialized, globalConfig, yamlFile>>

\* a null configJson pointer
NullDoc == JsonDoc("nullptr", EmptyObject)

\* goString / C.GoString on the configJson pointer: null reads as ""
DocString(doc) == IF doc.kind = "nullptr" THEN JsonDoc("empty", EmptyObject) ELSE doc

\* the blobs a host pushes through initialize_with_config
BootDocs ==
    {NullDoc}
        \cup {JsonDoc(k, EmptyObject) : k \in {"empty", "malformed", "null", "array"}}
        \cup {JsonDoc("object", o) :
                o \in {[x \in {"plugin_config"} |->
                          [t |-> "map", s |-> "", m |-> [y \in {"k"} |-> "v1"]]],
                       [x \in {"server_config"} |->
                          [t |-> "map", s |-> "", m |-> [y \in {"k"} |-> "v2"]]]}}

\* export: auth initialize_with_config(configJson)
AuthInitializeWithConfig(doc, fo) ==
    /\ Running("auth")
    /\ doc \in BootDocs
    /\ fo \in FactoryChoices
    /\ LET c == SetConfigFromJSON(DocString(doc), globalConfig)
       IN IF c.err
          THEN /\ last' = Call("initialize_with_config", <<>>, doc.kind, CBool(FALSE),
                               Nil, Nil, "", NoLazy, failStreak, justReg, NoOutcome)
               /\ justReg' = FALSE
               /\ UNCHANGED <<registeredPlugin, env, failStreak, lastReg, globalConfig>>
          ELSE LET g == GetRegisteredPlugin(kind, registeredPlugin, pluginInitializer,
                                            fo, c.cfg, yamlFile, env)
               IN /\ RegistryStep(g)
                  /\ globalConfig' = c.cfg
                  /\ last' = Call("initialize_with_config", <<>>, doc.kind,
                                  CBool(g.plugin # Nil), g.plugin, Nil, "",
                                  LazyStatus(g, fo), failStreak, justReg, NoOutcome)
    /\ UNCHANGED <<kind, alive, pluginInitializer, provider, pluginInstance,
                   isInitialized, yamlFile>>

\* ---------------------------------------------- storage boundary functions
\* the FFIResult-returning storage exports: name, number of required char*
\* arguments (the content type of store_file_with_content_type may be null
\* and is then passed on as no content type, so it is not counted), plugin
\* method; none of them defers a recover() or tests an argument
StorageEnvelopeFns ==
    { [name |-> "store_file_with_content_type", nargs |-> 1, op |-> "StoreFile"],
      [name |-> "store_file", nargs |-> 1, op |-> "StoreFile"],
      [name |-> "retrieve_file", nargs |-> 1, op |-> "RetrieveFile"],
      [name |-> "delete_file", nargs |-> 1, op |-> "DeleteFile"] }

\* the body of a storage FFIResult export after GetRegisteredPlugin():
\* the path is read with goString and handed to the plugin as it is
StorageEnvelope(f, plugin, args, out) ==
    IF plugin = Nil
    THEN [ret |-> newErrorResult(Lit("No plugin registered")), invoked |-> Nil]
    ELSE [ret |-> CASE out.t = "panic" -> OnPanic(FALSE, ZeroFFIResult)
                    [] out.t = "err" -> newErrorResult(out.e)
                    [] f.name = "retrieve_file" -> newSuccessResult(out.d)
                    [] OTHER -> newSuccessEmptyResult,
          invoked |-> plugin]

\* export: store_file_with_content_type, store_file, retrieve_file, delete_file
StorageEnvelopeCall(f, args, fo, out) ==
    /\ Running("storage")
    /\ args \in [1..f.nargs -> ArgVals]
    /\ fo \in FactoryChoices
    /\ LET g == Fetch(fo)
           r == StorageEnvelope(f, g.plugin, args, out)
       IN /\ out \in OutcomeChoices(r.invoked,
                     IF f.name = "retrieve_file" THEN BytesOutcomes ELSE ErrOutcomes)
          /\ RegistryStep(g)
          /\ alive' = AliveAfter(r.ret)
          /\ last' = Call(f.name, args, "none", r.ret, g.plugin, r.invoked,
                          IF r.invoked = Nil THEN "" ELSE f.op,
                          LazyStatus(g, fo), failStreak, justReg, out)
    /\ UNCHANGED <<kind, pluginInitializer, provider, pluginInstance,
                   isInitialized, globalConfig, yamlFile>>

\* the scalar-returning storage exports
StorageScalarFns ==
    { [name |-> "file_exists", nargs |-> 1, op |-> "FileExists"],
      [name |-> "generate_file_url", nargs |-> 2, op |-> "GenerateURL"],
      [name |-> "provider_name", nargs |-> 0, op |-> "ProviderName"],
      [name |-> "init_plugin", nargs |-> 0, op |-> ""],
      [name |-> "cleanup_plugin", nargs |-> 0, op |-> "Cleanup"] }

StorageOutcomes(f) ==
    CASE f.name = "file_exists" -> BoolOutcomes
      [] f.name = "generate_file_url" -> UrlOutcomes
      [] f.name = "provider_name" -> StringOutcomes
      [] f.name = "init_plugin" -> {NoOutcome}
      [] OTHER -> ErrOutcomes

\* the body of a scalar storage export: [ret, invoked]
StorageScalar(f, plugin, args, out) ==
    IF plugin = Nil
    THEN [ret |-> CASE f.name = "generate_file_url" -> CharPtr(NullPtr)
                    [] f.name = "provider_name" ->
                          CharPtr(cString(Lit("Unknown Go Plugin")))
                    [] OTHER -> CBool(FALSE),
          invoked |-> Nil]
    ELSE IF f.name = "init_plugin"
    THEN [ret |-> CBool(TRUE), invoked |-> Nil]
    ELSE [ret |-> CASE out.t = "panic" -> OnPanic(FALSE, CBool(FALSE))
                    [] f.name = "file_exists" -> CBool(out.b)
                    [] f.name = "generate_file_url" ->
                          IF out.b THEN CharPtr(cString(out.s)) ELSE CharPtr(NullPtr)
                    [] f.name = "provider_name" -> CharPtr(cString(out.s))
                    [] OTHER -> CBool(out.t = "ok"),
          invoked |-> plugin]

\* export: file_exists, generate_file_url, provider_name, init_plugin,
\* cleanup_plugin
StorageScalarCall(f, args, fo, out) ==
    /\ Running("storage")
    /\ args \in [1..f.nargs -> ArgVals]
    /\ fo \in FactoryChoices
    /\ LET g == Fetch(fo)
           r == StorageScalar(f, g.plugin, args, out)
       IN /\ out \in OutcomeChoices(r.invoked, StorageOutcomes(f))
          /\ RegistryStep(g)
          /\ alive' = AliveAfter(r.ret)
          /\ last' = Call(f.name, args, "none", r.ret, g.plugin, r.invoked,
                          IF r.invoked = Nil THEN "" ELSE f.op,
                          LazyStatus(g, fo), failStreak, justReg,
                          out)
    /\ UNCHANGED <<kind, pluginInitializer, provider, pluginInstance,
                   isInitialized, globalConfig, yamlFile>>

\* ------------------------------------------------ cache boundary functions
\* a (char*, int) argument pair of the host: a null pointer with length 0 or
\* with a positive length, an empty buffer, or a buffer holding some text
CacheKeyArgs == {"null0", "nullN", "empty", "text"}

CacheJsonArgs == {"null0", "nullN", "empty", "malformed", "wellformed"}

\* C.GoStringN(ptr, len) reads len bytes from ptr: a fault when ptr is null
\* and len is positive
GoStringNFaults(a) == a = "nullN"

\* values a cache provider may hand back from Get: "", a, 1, "a"
CacheValues == {<<>>, <<97>>, <<49>>, <<34, 97, 34>>}

\* json.Valid on those values
JsonValid(v) == v \in {<<49>>, <<34, 97, 34>>}

\* json.Marshal of a Go string: quotes around the escaped bytes
RECURSIVE JsonEscape(_)
JsonEscape(v) ==
    IF v = <<>> THEN <<>>
    ELSE (CASE Head(v) = 34 -> <<92, 34>>
            [] Head(v) = 0 -> <<92, 117, 48, 48, 48, 48>>
            [] OTHER -> <<Head(v)>>) \o JsonEscape(Tail(v))

JsonQuote(v) == <<34>> \o JsonEscape(v) \o <<34>>

CacheValueOutcomes ==
    {Outcome("ok", NoStr, TRUE, GoStr("", v), "nil") : v \in CacheValues}
        \cup {Outcome("err", e, FALSE, NoStr, "nil") : e \in ErrTexts}
        \cup {Outcome("panic", NoStr, FALSE, NoStr, "nil")}

\* methods returning (bool, error) or (int, error)
BoolErrOutcomes ==
    BoolOutcomes \cup {Outcome("err", e, FALSE, NoStr, "nil") : e \in ErrTexts}

\* the cache exports that forward to the provider: name, whether the
\* argument is parsed as JSON, the provider method, the error text
CacheFns ==
    { [name |-> "initialize", json |-> TRUE, op |-> "Initialize",
       prefix |-> "{\"error\": \"Failed to initialize: "],
      [name |-> "cache_get", json |-> FALSE, op |-> "Get", prefix |-> ""],
      [name |-> "cache_set", json |-> TRUE, op |-> "Set",
       prefix |-> "{\"error\": \"Failed to set cache: "],
      [name |-> "cache_delete", json |-> FALSE, op |-> "Delete",
       prefix |-> "{\"error\": \"Failed to delete: "],
      [name |-> "cache_delete_pattern", json |-> FALSE, op |-> "DeletePattern",
       prefix |-> "{\"error\": \"Failed to delete pattern: "],
      [name |-> "cache_exists", json |-> FALSE, op |-> "Exists",
       prefix |-> "{\"error\": \"Failed to check existence: "],
      [name |-> "cache_set_multiple", json |-> TRUE, op |-> "SetMultiple",
       prefix |-> "{\"error\": \"Failed to set multiple: "],
      [name |-> "cache_stats", json |-> FALSE, op |-> "Stats",
       prefix |-> "{\"error\": \"Failed to get stats: "] }

CacheOutcomes(f) ==
    CASE f.name = "cache_get" -> CacheValueOutcomes
      [] f.name \in {"cache_delete", "cache_delete_pattern", "cache_exists"} ->
            BoolErrOutcomes
      [] OTHER -> ErrOutcomes

\* cache_stats takes no argument
CacheArgs(f) ==
    IF f.name = "cache_stats" THEN {"none"}
    ELSE IF f.json THEN CacheJsonArgs ELSE CacheKeyArgs

\* the text a cache export returns when the provider call returned normally
CacheSuccessText(f, out) ==
    CASE f.name = "cache_get" ->
            IF IsEmptyStr(out.s) THEN Lit("null")
            ELSE IF JsonValid(out.s.tail) THEN out.s
            ELSE GoStr("", JsonQuote(out.s.tail))
      [] f.name \in {"cache_delete", "cache_exists"} ->
            IF out.b THEN Lit("true") ELSE Lit("false")
      [] f.name = "cache_delete_pattern" -> Lit("%d")
      [] f.name = "cache_stats" -> Lit("{stats}")
      [] OTHER -> Lit("{\"success\": true}")

\* the body of a cache export: [ret, invoked]; an error text stands for the
\* formatted {"error": "<prefix><err>"}
CacheExport(f, prov, arg, out) ==
    IF prov = Nil
    THEN [ret |-> CharPtr(CCString(Lit("{\"error\": \"Cache provider not set\"}"))),
          invoked |-> Nil]
    ELSE IF f.name # "cache_stats" /\ GoStringNFaults(arg)
    THEN [ret |-> Crash, invoked |-> Nil]
    ELSE IF f.json /\ arg # "wellformed"
    THEN [ret |-> CharPtr(CCString(Lit(
                     IF f.name = "initialize"
                     THEN "{\"error\": \"Failed to parse config: "
                     ELSE "{\"error\": \"Failed to parse request: "))),
          invoked |-> Nil]
    ELSE [ret |-> CASE out.t = "panic" -> OnPanic(FALSE, CharPtr(NullPtr))
                    [] out.t = "err" ->
                          IF f.name = "cache_get"
                          THEN CharPtr(CCString(Lit("null")))
                          ELSE CharPtr(CCString(Concat(f.prefix, out.e)))
                    [] OTHER -> CharPtr(CCString(CacheSuccessText(f, out))),
          invoked |-> prov]

\* API: SetProvider(p) / SetCachePlugin(p)
SetProvider(p) ==
    /\ Running("cache")
    /\ provider' = p
    /\ lastReg' = p
    /\ justReg' = (p # Nil)
    /\ last' = Call("SetProvider", <<>>, "none", NoResult, Nil, Nil, "",
                    NoLazy, failStreak, FALSE, NoOutcome)
    /\ UNCHANGED <<kind, alive, registeredPlugin, pluginInitializer, pluginInstance,
                   isInitialized, globalConfig, env, yamlFile, failStreak>>

\* export: initialize, cache_get, cache_set, cache_delete,
\* cache_delete_pattern, cache_exists, cache_set_multiple, cache_stats
CacheCall(f, arg, out) ==
    /\ Running("cache")
    /\ arg \in CacheArgs(f)
    /\ LET r == CacheExport(f, provider, arg, out)
       IN /\ out \in OutcomeChoices(r.invoked, CacheOutcomes(f))
          /\ alive' = AliveAfter(r.ret)
          /\ last' = Call(f.name, <<arg>>, "none", r.ret, provider, r.invoked,
                          IF r.invoked = Nil THEN "" ELSE f.op,
                          NoLazy, failStreak, justReg, out)
    /\ justReg' = FALSE
    /\ UNCHANGED <<kind, registeredPlugin, pluginInitializer, provider,
                   pluginInstance, isInitialized, globalConfig, env, yamlFile,
                   failStreak, lastReg>>

\* the body of cache provider_name(): [ret, invoked]
CacheProviderName(prov, out) ==
    IF prov = Nil
    THEN [ret |-> CharPtr(CCString(Lit("Unknown Cache Provider"))), invoked |-> Nil]
    ELSE [ret |-> IF out.t = "panic" THEN OnPanic(FALSE, CharPtr(NullPtr))
                  ELSE CharPtr(CCString(out.s)),
          invoked |-> prov]

\* export: cache provider_name
CacheProviderNameCall(out) ==
    /\ Running("cache")
    /\ LET r == CacheProviderName(provider, out)
       IN /\ out \in OutcomeChoices(r.invoked, StringOutcomes)
          /\ alive' = AliveAfter(r.ret)
          /\ last' = Call("provider_name", <<>>, "none", r.ret, provider, r.invoked,
                          IF r.invoked = Nil THEN "" ELSE "Name",
                          NoLazy, failStreak, justReg,
                          out)
    /\ justReg' = FALSE
    /\ UNCHANGED <<kind, registeredPlugin, pluginInitializer, provider,
                   pluginInstance, isInitialized, globalConfig, env, yamlFile,
                   failStreak, lastReg>>

\* ---------------------------------------------- general boundary functions
\* the on_<event> exports and the plugin callback each forwards to
GeneralEvents ==
    { [name |-> "on_environment_created", op |-> "OnEnvironmentCreated"],
      [name |-> "on_environment_updated", op |-> "OnEnvironmentUpdated"],
      [name |-> "on_environment_deleted", op |-> "OnEnvironmentDeleted"],
      [name |-> "on_organization_created", op |-> "OnOrganizationCreated"],
      [name |-> "on_organization_updated", op |-> "OnOrganizationUpdated"],
      [name |-> "on_organization_deleted", op |-> "OnOrganizationDeleted"],
      [name |-> "on_user_created", op |-> "OnUserCreated"],
      [name |-> "on_user_updated", op |-> "OnUserUpdated"],
      [name |-> "on_user_deleted", op |-> "OnUserDeleted"],
      [name |-> "on_user_assigned_to_organization",
       op |-> "OnUserAssignedToOrganization"],
      [name |-> "on_user_removed_from_organization",
       op |-> "OnUserRemovedFromOrganization"],
      [name |-> "on_user_assigned_to_environment",
       op |-> "OnUserAssignedToEnvironment"],
      [name |-> "on_user_removed_from_environment",
       op |-> "OnUserRemovedFromEnvironment"],
      [name |-> "on_user_avatar_uploaded", op |-> "OnUserAvatarUploaded"],
      [name |-> "on_oauth_client_created", op |-> "OnOAuthClientCreated"],
      [name |-> "on_oauth_client_updated", op |-> "OnOAuthClientUpdated"],
      [name |-> "on_oauth_client_deleted", op |-> "OnOAuthClientDeleted"],
      [name |-> "on_user_client_authorization_revoked",
       op |-> "OnUserClientAuthorizationRevoked"] }

\* getPlugin()
getPlugin(instance) == instance

GeneralFrame ==
    UNCHANGED <<kind, registeredPlugin, pluginInitializer, provider, env,
                yamlFile, failStreak>>

\* an ExportPlugin that keeps the plugin exported first
ExportPlugin_KeepFirst(p, out) ==
    /\ Running("general")
    /\ out \in StringOutcomes
    /\ pluginInstance' = IF pluginInstance = Nil THEN p ELSE pluginInstance
    /\ lastReg' = p
    /\ justReg' = (p # Nil)
    /\ alive' = IF p = Nil \/ out.t = "panic" THEN "crashed" ELSE "running"
    /\ last' = Call("ExportPlugin", <<>>, "none", NoResult, Nil, p,
                    IF p = Nil THEN "" ELSE "GetPluginName", NoLazy, failStreak,
                    FALSE, out)
    /\ UNCHANGED <<isInitialized, globalConfig>>
    /\ GeneralFrame

\* API: general ExportPlugin(plugin): the slot is written first, then the
\* plugin's name and version are printed (a nil plugin panics there)
ExportPlugin(p, out) ==
    /\ Running("general")
    /\ out \in StringOutcomes
    /\ pluginInstance' = p
    /\ lastReg' = p
    /\ justReg' = (p # Nil)
    /\ alive' = IF p = Nil \/ out.t = "panic" THEN "crashed" ELSE "running"
    /\ last' = Call("ExportPlugin", <<>>, "none", NoResult, Nil, p,
                    IF p = Nil THEN "" ELSE "GetPluginName", NoLazy, failStreak,
                    FALSE, out)
    /\ UNCHANGED <<isInitialized, globalConfig>>
    /\ GeneralFrame

\* the body of get_plugin_name / get_plugin_version: [ret, invoked]
GeneralName(fn, plugin, out) ==
    IF plugin = Nil
    THEN [ret |-> CharPtr(CCString(Lit(IF fn = "get_plugin_name"
                                       THEN "Unknown Plugin" ELSE "0.0.0"))),
          invoked |-> Nil]
    ELSE [ret |-> IF out.t = "panic" THEN OnPanic(FALSE, CharPtr(NullPtr))
                  ELSE CharPtr(CCString(out.s)),
          invoked |-> plugin]

\* export: get_plugin_name, get_plugin_version
GeneralNameCall(fn, out) ==
    /\ Running("general")
    /\ fn \in {"get_plugin_name", "get_plugin_version"}
    /\ LET plugin == getPlugin(pluginInstance)
           r == GeneralName(fn, plugin, out)
       IN /\ out \in OutcomeChoices(r.invoked, StringOutcomes)
          /\ alive' = AliveAfter(r.ret)
          /\ last' = Call(fn, <<>>, "none", r.ret, plugin, r.invoked,
                          IF r.invoked = Nil THEN ""
                          ELSE IF fn = "get_plugin_name" THEN "GetPluginName"
                          ELSE "GetPluginVersion",
                          NoLazy, failStreak, justReg,
                          out)
    /\ justReg' = FALSE
    /\ UNCHANGED <<pluginInstance, isInitialized, globalConfig, lastReg>>
    /\ GeneralFrame

\* export: general initialize_with_config(configJson)
GeneralInitializeWithConfig(doc, out) ==
    /\ Running("general")
    /\ doc \in BootDocs
    /\ LET plugin == getPlugin(pluginInstance)
           c == SetConfigFromJSON(DocString(doc), globalConfig)
           calls == plugin # Nil /\ ~c.err /\ ~isInitialized
           ret == IF plugin = Nil \/ c.err THEN CBool(FALSE)
                  ELSE IF isInitialized THEN CBool(TRUE)
                  ELSE IF out.t = "panic" THEN OnPanic(FALSE, CBool(FALSE))
                  ELSE CBool(out.b)
       IN /\ out \in OutcomeChoices(IF calls THEN plugin ELSE Nil, BoolOutcomes)
          /\ globalConfig' = IF plugin = Nil THEN globalConfig ELSE c.cfg
          /\ isInitialized' = IF calls /\ out.t = "ok" /\ out.b THEN TRUE
                              ELSE isInitialized
          /\ alive' = AliveAfter(ret)
          /\ last' = Call("initialize_with_config", <<>>, doc.kind, ret, plugin,
                          IF calls THEN plugin ELSE Nil,
                          IF calls THEN "Initialize" ELSE "",
                          NoLazy, failStreak, justReg, out)
    /\ justReg' = FALSE
    /\ UNCHANGED <<pluginInstance, lastReg>>
    /\ GeneralFrame

\* a lifecycle export that flips the flag whenever the plugin method returns
GeneralLifecycle_FlagOnReturn(fn, out) ==
    /\ Running("general")
    /\ fn \in {"init_plugin", "cleanup_plugin"}
    /\ LET plugin == getPlugin(pluginInstance)
           done == IF fn = "init_plugin" THEN isInitialized ELSE ~isInitialized
           calls == plugin # Nil /\ ~done
           ret == IF plugin = Nil THEN CInt(FALSE)
                  ELSE IF done THEN CInt(TRUE)
                  ELSE IF out.t = "panic" THEN OnPanic(FALSE, CInt(FALSE))
                  ELSE CInt(out.b)
       IN /\ out \in OutcomeChoices(IF calls THEN plugin ELSE Nil, BoolOutcomes)
          /\ isInitialized' = IF calls /\ out.t = "ok"
                              THEN (fn = "init_plugin") ELSE isInitialized
          /\ alive' = AliveAfter(ret)
          /\ last' = Call(fn, <<>>, "none", ret, plugin,
                          IF calls THEN plugin ELSE Nil,
                          IF ~calls THEN ""
                          ELSE IF fn = "init_plugin" THEN "Initialize" ELSE "Cleanup",
                          NoLazy, failStreak, justReg, out)
    /\ justReg' = FALSE
    /\ UNCHANGED <<pluginInstance, globalConfig, lastReg>>
    /\ GeneralFrame

\* export: general init_plugin / cleanup_plugin
GeneralLifecycle(fn, out) ==
    /\ Running("general")
    /\ fn \in {"init_plugin", "cleanup_plugin"}
    /\ LET plugin == getPlugin(pluginInstance)
           done == IF fn = "init_plugin" THEN isInitialized ELSE ~isInitialized
           calls == plugin # Nil /\ ~done
           ret == IF plugin = Nil THEN CInt(FALSE)
                  ELSE IF done THEN CInt(TRUE)
                  ELSE IF out.t = "panic" THEN OnPanic(FALSE, CInt(FALSE))
                  ELSE CInt(out.b)
       IN /\ out \in OutcomeChoices(IF calls THEN plugin ELSE Nil, BoolOutcomes)
          /\ isInitialized' = IF calls /\ out.t = "ok" /\ out.b
                              THEN (fn = "init_plugin") ELSE isInitialized
          /\ alive' = AliveAfter(ret)
          /\ last' = Call(fn, <<>>, "none", ret, plugin,
                          IF calls THEN plugin ELSE Nil,
                          IF ~calls THEN ""
                          ELSE IF fn = "init_plugin" THEN "Initialize" ELSE "Cleanup",
                          NoLazy, failStreak, justReg, out)
    /\ justReg' = FALSE
    /\ UNCHANGED <<pluginInstance, globalConfig, lastReg>>
    /\ GeneralFrame

\* an event export that delivers only to an initialized plugin
GeneralEvent_WhenInitialized(ev, plugin, payload, out) ==
    IF ~isInitialized \/ plugin = Nil \/ payload = "null" \/ ~UnmarshalOk(payload)
    THEN [ret |-> CInt(FALSE), invoked |-> Nil]
    ELSE [ret |-> IF out.t = "panic" THEN OnPanic(FALSE, CInt(FALSE))
                  ELSE CInt(out.b),
          invoked |-> plugin]

\* an event export that answers 1 whenever it reached the callback
GeneralEvent_AlwaysOne(ev, plugin, payload, out) ==
    IF plugin = Nil \/ payload = "null" \/ ~UnmarshalOk(payload)
    THEN [ret |-> CInt(FALSE), invoked |-> Nil]
    ELSE [ret |-> IF out.t = "panic" THEN OnPanic(FALSE, CInt(FALSE))
                  ELSE CInt(TRUE),
          invoked |-> plugin]

\* the body of an on_<event> export: [ret, invoked]
GeneralEvent(ev, plugin, payload, out) ==
    IF plugin = Nil \/ payload = "null" \/ ~UnmarshalOk(payload)
    THEN [ret |-> CInt(FALSE), invoked |-> Nil]
    ELSE [ret |-> IF out.t = "panic" THEN OnPanic(FALSE, CInt(FALSE))
                  ELSE CInt(out.b),
          invoked |-> plugin]

\* export: on_environment_created ... on_user_client_authorization_revoked
GeneralEventCall(ev, payload, out) ==
    /\ Running("general")
    /\ payload \in JsonArgVals
    /\ LET plugin == getPlugin(pluginInstance)
           r == GeneralEvent(ev, plugin, payload, out)
       IN /\ out \in OutcomeChoices(r.invoked, BoolOutcomes)
          /\ alive' = AliveAfter(r.ret)
          /\ last' = Call(ev.name, <<>>, payload, r.ret, plugin, r.invoked,
                          IF r.invoked = Nil THEN "" ELSE ev.op,
                          NoLazy, failStreak, justReg, out)
    /\ justReg' = FALSE
    /\ UNCHANGED <<pluginInstance, isInitialized, globalConfig, lastReg>>
    /\ GeneralFrame

\* ------------------------------------------------------- the specification
\* the environment the host starts the library in
InitialEnvs ==
    {<<>>} \cup {[n \in {<<"STORAGE", "BUCKET">>} |-> v] : v \in {<<>>, <<"env-value">>}}

Init ==
    /\ kind \in Kinds
    /\ alive = "running"
    /\ registeredPlugin = Nil
    /\ pluginInitializer = Nil
    /\ provider = Nil
    /\ pluginInstance = Nil
    /\ isInitialized = FALSE
    /\ globalConfig = NilConfig
    /\ env \in InitialEnvs
    /\ yamlFile \in YamlFiles
    /\ kind # "storage" => env = <<>> /\ yamlFile = NoFile
    /\ failStreak = 0
    /\ lastReg = Nil
    /\ justReg = FALSE
    /\ last = NoCall
    /\ threads = <<>>
    /\ created = 0
    /\ explicitReg = FALSE
    /\ owned = {}
    /\ store = <<>>
    /\ returned = NotTaken
    /\ pushed = FALSE
    /\ exported = {}
    /\ cleaned = Nil
    /\ inited = Nil

\* the host (or the plugin's main) takes the result of the call; the record
\* of the call is dropped, the library's state stays
Return ==
    /\ alive = "running"
    /\ last # NoCall
    /\ last' = NoCall
    /\ UNCHANGED <<kind, alive, registeredPlugin, pluginInitializer, provider,
                   pluginInstance, isInitialized, globalConfig, env, yamlFile,
                   failStreak, lastReg, justReg, threads, created, explicitReg,
                   owned,
                store, returned, pushed, exported,
                cleaned, inited>>

\* the Go API of the auth and storage registries
RegistryApi ==
    /\ kind \in {"auth", "storage"} /\ Idle
    /\ UNCHANGED concVars
    /\ \/ \E p \in Plugins \cup {Nil} : DoRegisterPlugin(p)
       \/ \E f \in Factories \cup {Nil} : DoSetPluginInitializer(f)
       \/ \E fo \in FactoryChoices : DoGetRegisteredPlugin(fo)
       \/ \E p \in Plugins \cup {Nil}, out \in StringOutcomes : DoExportPlugin(p, out)

\* the exports of an auth plugin library
AuthExports ==
    /\ Running("auth")
    /\ UNCHANGED concVars
    /\ \/ \E f \in AuthEnvelopeFns : \E args \in [1..f.nargs -> ArgVals] :
            \E payload \in (IF f.json THEN JsonArgVals ELSE {"none"}),
               fo \in FactoryChoices, out \in ErrOutcomes \cup {NoOutcome} :
                 AuthEnvelopeCall(f, args, payload, fo, out)
       \/ \E fo \in FactoryChoices, out \in StringOutcomes \cup {NoOutcome} :
            AuthProviderNameCall(fo, out)
       \/ \E f \in AuthBoolFns : \E args \in [1..f.nargs -> ArgVals] :
            \E fo \in FactoryChoices,
               out \in ErrOutcomes \cup BoolOutcomes \cup {NoOutcome} :
                 AuthBoolCall(f, args, fo, out)
       \/ \E doc \in BootDocs, fo \in FactoryChoices :
            AuthInitializeWithConfig(doc, fo)

\* the exports of a storage plugin library
StorageExports ==
    /\ Running("storage")
    /\ UNCHANGED concVars
    /\ \/ \E f \in StorageEnvelopeFns : \E args \in [1..f.nargs -> ArgVals] :
            \E fo \in FactoryChoices, out \in BytesOutcomes \cup {NoOutcome} :
                 StorageEnvelopeCall(f, args, fo, out)
       \/ \E f \in StorageScalarFns : \E args \in [1..f.nargs -> ArgVals] :
            \E fo \in FactoryChoices, out \in StorageOutcomes(f) \cup {NoOutcome} :
                 StorageScalarCall(f, args, fo, out)

\* SetProvider and the exports of a cache plugin library
CacheExports ==
    /\ Running("cache")
    /\ UNCHANGED concVars
    /\ \/ \E p \in Plugins \cup {Nil} : SetProvider(p)
       \/ \E f \in CacheFns : \E arg \in CacheArgs(f),
                                 out \in CacheOutcomes(f) \cup {NoOutcome} :
            CacheCall(f, arg, out)
       \/ \E out \in StringOutcomes \cup {NoOutcome} : CacheProviderNameCall(out)

\* ExportPlugin and the exports of a general plugin library
GeneralExports ==
    /\ Running("general")
    /\ UNCHANGED concVars
    /\ \/ \E p \in Plugins \cup {Nil}, out \in StringOutcomes : ExportPlugin(p, out)
       \/ \E fn \in {"get_plugin_name", "get_plugin_version"},
             out \in StringOutcomes \cup {NoOutcome} :
            GeneralNameCall(fn, out)
       \/ \E doc \in BootDocs, out \in BoolOutcomes \cup {NoOutcome} :
            GeneralInitializeWithConfig(doc, out)
       \/ \E fn \in {"init_plugin", "cleanup_plugin"},
             out \in BoolOutcomes \cup {NoOutcome} :
            GeneralLifecycle(fn, out)
       \/ \E ev \in GeneralEvents, payload \in JsonArgVals,
             out \in BoolOutcomes \cup {NoOutcome} :
            GeneralEventCall(ev, payload, out)

Next ==
    \/ RegistryApi /\ UNCHANGED hostVars
    \/ AuthExports /\ UNCHANGED hostVars
    \/ StorageExports /\ UNCHANGED hostVars
    \/ CacheExports /\ UNCHANGED hostVars
    \/ GeneralExports /\ UNCHANGED hostVars
    \/ Return

Spec == Init /\ [][Next]_vars

\* --------------------------------------------- buffers handed to the host
\* the heap buffers a result carries: FFIResult.data (C.malloc),
\* FFIResult.error_msg and a returned char* (C.CString)
Handed(ret) ==
    (IF ret.shape = "FFIResult" /\ ret.data # "nil" THEN {"data"} ELSE {})
        \cup (IF ret.shape = "FFIResult" /\ ~ret.error_msg.null
              THEN {"error_msg"} ELSE {})
        \cup (IF ret.shape = "cstr" /\ ~ret.str.null THEN {"cstr"} ELSE {})

\* the free functions the libraries export: free_string(ptr *C.char) of the
\* general package and free_result(ptr *C.char) of the cache package; the
\* auth and storage packages export none
FreeFns ==
    { [name |-> "free_string", kind |-> "general", takes |-> "cstr"],
      [name |-> "free_result", kind |-> "cache", takes |-> "cstr"] }

\* export: free_string / free_result called with a null pointer or with a
\* buffer the host holds; other buffers of the same kind may remain
FreeCall(f, ptr) ==
    /\ Running(f.kind)
    /\ ptr \in {"null"} \cup (owned \cap {f.takes})
    /\ owned' \in (IF ptr = "null" THEN {owned} ELSE {owned, owned \ {ptr}})
    /\ last' = Call(f.name, <<IF ptr = "null" THEN "null" ELSE "text">>, "none",
                    NoResult, Nil, Nil, "", NoLazy, failStreak, FALSE, NoOutcome)
    /\ UNCHANGED <<kind, alive, registeredPlugin, pluginInitializer, provider,
                   pluginInstance, isInitialized, globalConfig, env, yamlFile,
                   failStreak, lastReg, justReg, store, returned, pushed, exported,
                cleaned, inited>>
    /\ UNCHANGED concVars

\* the host keeps what the call returned
Hand ==
    /\ owned' = owned \cup Handed(last'.ret)
    /\ UNCHANGED <<store, returned, pushed, exported,
                cleaned, inited>>

NextMem ==
    \/ RegistryApi /\ Hand
    \/ AuthExports /\ Hand
    \/ StorageExports /\ Hand
    \/ CacheExports /\ Hand
    \/ GeneralExports /\ Hand
    \/ \E f \in FreeFns, ptr \in {"null", "cstr"} : FreeCall(f, ptr)
    \/ Return

SpecMem == Init /\ [][NextMem]_vars

\* ------------------------------------------- concurrent registry callers
\* goroutines that enter the auth or storage registry at the same time (host
\* threads inside exports, the plugin's main inside the Go API)
Threads == {"t1", "t2"}

\* calls each goroutine makes
MaxCalls == 2

\* An interface value is two machine words, the type word and the data word.
\* RegisterPlugin and GetRegisteredPlugin take no lock, so the words of
\* registeredPlugin are stored and loaded one at a time and the goroutines'
\* accesses interleave; a value whose words stem from two stores is torn.
Iface(p) == [typ |-> p, data |-> p]

\* a goroutine outside any call, after n calls
IdleThread(n) ==
    [pc |-> "idle", op |-> "", arg |-> Iface(Nil), init |-> Nil,
     got |-> Iface(Nil), made |-> Nil, calls |-> n]

ConcFrame ==
    UNCHANGED <<kind, provider, pluginInstance, isInitialized, globalConfig,
                yamlFile, failStreak, lastReg, justReg, last, owned,
                store, returned, pushed, exported,
                cleaned, inited>>

\* a goroutine enters GetRegisteredPlugin(), RegisterPlugin(p) or
\* SetPluginInitializer(f)
ConcCall(t, op, p, f) ==
    /\ alive = "running"
    /\ threads[t].pc = "idle" /\ threads[t].calls < MaxCalls
    /\ threads' = [threads EXCEPT ![t] =
          [pc |-> CASE op = "GetRegisteredPlugin" -> "check"
                    [] op = "RegisterPlugin" -> "storeT"
                    [] OTHER -> "setInit",
           op |-> op, arg |-> Iface(p), init |-> f, got |-> Iface(Nil),
           made |-> Nil, calls |-> @.calls + 1]]
    /\ explicitReg' = (explicitReg \/ op = "RegisterPlugin")
    /\ UNCHANGED <<alive, registeredPlugin, pluginInitializer, env, created>>
    /\ ConcFrame

\* GetRegisteredPlugin: if registeredPlugin == nil && pluginInitializer != nil
\* (an interface is nil when its type word is)
ConcCheck(t) ==
    /\ alive = "running"
    /\ threads[t].pc = "check"
    /\ threads' = [threads EXCEPT ![t].pc =
          IF registeredPlugin.typ = Nil /\ pluginInitializer # Nil
          THEN "factory" ELSE "loadT"]
    /\ UNCHANGED <<alive, registeredPlugin, pluginInitializer, env, created,
                   explicitReg>>
    /\ ConcFrame

\* GetRegisteredPlugin: plugin, err := pluginInitializer(); the variable is
\* loaded again for the call, and calling a nil function panics (recovered
\* by the auth exports, not by the storage exports)
ConcFactory(t, fo) ==
    /\ alive = "running"
    /\ threads[t].pc = "factory"
    /\ env' = IF kind = "storage"
              THEN LoadConfigAndSetEnvVars(globalConfig, yamlFile, "storage", env).env
              ELSE env
    /\ IF pluginInitializer = Nil
       THEN /\ alive' = IF kind = "auth" THEN "running" ELSE "crashed"
            /\ threads' = [threads EXCEPT ![t].pc = "idle"]
            /\ UNCHANGED created
       ELSE /\ alive' = alive
            /\ threads' = [threads EXCEPT ![t] =
                  IF FactoryAccepted(fo)
                  THEN [@ EXCEPT !.pc = "storeT", !.arg = Iface(fo.plugin),
                                 !.made = fo.plugin]
                  ELSE [@ EXCEPT !.pc = "loadT"]]
            /\ created' = IF FactoryAccepted(fo) THEN created + 1 ELSE created
    /\ UNCHANGED <<registeredPlugin, pluginInitializer, explicitReg>>
    /\ ConcFrame

\* RegisterPlugin: registeredPlugin = plugin, the type word then the data word
ConcStore(t) ==
    /\ alive = "running"
    /\ threads[t].pc \in {"storeT", "storeD"}
    /\ IF threads[t].pc = "storeT"
       THEN /\ registeredPlugin' = [registeredPlugin EXCEPT !.typ = threads[t].arg.typ]
            /\ threads' = [threads EXCEPT ![t].pc = "storeD"]
       ELSE /\ registeredPlugin' = [registeredPlugin EXCEPT !.data = threads[t].arg.data]
            /\ threads' = [threads EXCEPT ![t].pc =
                  IF threads[t].op = "GetRegisteredPlugin" THEN "loadT" ELSE "idle"]
    /\ UNCHANGED <<alive, pluginInitializer, env, created, explicitReg>>
    /\ ConcFrame

\* GetRegisteredPlugin: return registeredPlugin, the type word then the data
\* word
ConcLoad(t) ==
    /\ alive = "running"
    /\ threads[t].pc \in {"loadT", "loadD"}
    /\ threads' = [threads EXCEPT ![t] =
          IF threads[t].pc = "loadT"
          THEN [@ EXCEPT !.pc = "loadD", !.got.typ = registeredPlugin.typ]
          ELSE [@ EXCEPT !.pc = "idle", !.got.data = registeredPlugin.data]]
    /\ UNCHANGED <<alive, registeredPlugin, pluginInitializer, env, created,
                   explicitReg>>
    /\ ConcFrame

\* SetPluginInitializer: pluginInitializer = initializer
ConcSetInit(t) ==
    /\ alive = "running"
    /\ threads[t].pc = "setInit"
    /\ pluginInitializer' = SetPluginInitializer(pluginInitializer, threads[t].init)
    /\ threads' = [threads EXCEPT ![t].pc = "idle"]
    /\ UNCHANGED <<alive, registeredPlugin, env, created, explicitReg>>
    /\ ConcFrame

InitConc ==
    /\ kind \in {"auth", "storage"}
    /\ alive = "running"
    /\ registeredPlugin = Iface(Nil)
    /\ pluginInitializer = Nil
    /\ provider = Nil
    /\ pluginInstance = Nil
    /\ isInitialized = FALSE
    /\ globalConfig = NilConfig
    /\ env = <<>>
    /\ yamlFile = NoFile
    /\ failStreak = 0
    /\ lastReg = Nil
    /\ justReg = FALSE
    /\ last = NoCall
    /\ threads = [t \in Threads |-> IdleThread(0)]
    /\ created = 0
    /\ explicitReg = FALSE
    /\ owned = {}
    /\ store = <<>>
    /\ returned = NotTaken
    /\ pushed = FALSE
    /\ exported = {}
    /\ cleaned = Nil
    /\ inited = Nil

NextConc ==
    \/ \E t \in Threads : ConcCall(t, "GetRegisteredPlugin", Nil, Nil)
    \/ \E t \in Threads, p \in Plugins \cup {Nil} : ConcCall(t, "RegisterPlugin", p, Nil)
    \/ \E t \in Threads, f \in Factories \cup {Nil} :
         ConcCall(t, "SetPluginInitializer", Nil, f)
    \/ \E t \in Threads : ConcCheck(t)
    \/ \E t \in Threads, fo \in FactoryOutcomes : ConcFactory(t, fo)
    \/ \E t \in Threads : ConcStore(t)
    \/ \E t \in Threads : ConcLoad(t)
    \/ \E t \in Threads : ConcSetInit(t)

SpecConc == InitConc /\ [][NextConc]_vars

\* ------------------------------------------------ the configuration store
\* the record kept of a call into the config package
CfgCall(fn, doc, key, err, found, value) ==
    [fn |-> fn, doc |-> doc, key |-> key, err |-> err, found |-> found,
     value |-> value]

CfgFrame ==
    UNCHANGED <<kind, alive, registeredPlugin, pluginInitializer, provider,
                pluginInstance, isInitialized, env, yamlFile, failStreak,
                lastReg, justReg, threads, created, explicitReg, owned,
                store, returned, exported,
                cleaned, inited>>

\* API: config.SetConfigFromJSON(configJSON)
DoSetConfigFromJSON(doc) ==
    /\ Idle
    /\ LET c == SetConfigFromJSON(doc, globalConfig)
       IN /\ globalConfig' = c.cfg
          /\ last' = CfgCall("SetConfigFromJSON", doc, "", c.err, FALSE, "")
          /\ pushed' = (pushed \/ ~c.err)
    /\ CfgFrame

\* API: config.GetConfigValue(key), GetPluginConfigValue(key),
\* GetServerConfigValue(key)
DoGetConfigValue(getter, key) ==
    /\ Idle
    /\ LET v == CASE getter = "GetPluginConfigValue" ->
                        GetPluginConfigValue(globalConfig, key)
                  [] getter = "GetServerConfigValue" ->
                        GetServerConfigValue(globalConfig, key)
                  [] OTHER -> GetConfigValue(globalConfig, key)
       IN last' = CfgCall(getter, JsonDoc("empty", EmptyObject), key, FALSE,
                          v.found, v.value)
    /\ UNCHANGED <<globalConfig, pushed>>
    /\ CfgFrame

\* the record kept of a call that reads or writes the environment
EnvCall(fn, pluginType, key, err, value) ==
    [fn |-> fn, pluginType |-> pluginType, key |-> key, err |-> err,
     value |-> value]

\* API: config.LoadConfigAndSetEnvVars(pluginType)
DoLoadConfigAndSetEnvVars(pluginType) ==
    /\ Idle
    /\ LET r == LoadConfigAndSetEnvVars(globalConfig, yamlFile, pluginType, env)
       IN /\ env' = r.env
          /\ last' = EnvCall("LoadConfigAndSetEnvVars", pluginType, "", r.err, <<>>)
    /\ UNCHANGED <<kind, alive, registeredPlugin, pluginInitializer, provider,
                   pluginInstance, isInitialized, globalConfig, yamlFile,
                   failStreak, lastReg, justReg, threads, created, explicitReg,
                   owned,
                store, returned, pushed, exported,
                cleaned, inited>>

\* types.LoadGeneralPluginConfig(pluginName) and
\* types.LoadAllGeneralPluginConfigs(): the file is found and parsed as by
\* the file-based LoadConfigAndSetEnvVars; the files of the model define no
\* general plugin, so no variable is set: [err, env]
FileLoadGeneralPluginConfig(file, e) ==
    [err |-> file.found /\ ~file.valid, env |-> e]

\* config.LoadGeneralPluginConfig(pluginName) and
\* config.LoadAllGeneralPluginConfigs(): the file is read only while
\* globalConfig is nil
LoadGeneralPluginConfig(cfg, file, e) ==
    IF cfg.isnil
    THEN FileLoadGeneralPluginConfig(file, e)
    ELSE [err |-> FALSE, env |-> e]

\* API: config.LoadGeneralPluginConfig(pluginName),
\* config.LoadAllGeneralPluginConfigs()
DoLoadGeneralPluginConfig(fn) ==
    /\ Idle
    /\ LET r == LoadGeneralPluginConfig(globalConfig, yamlFile, env)
       IN /\ env' = r.env
          /\ last' = EnvCall(fn, "general", "", r.err, <<>>)
    /\ UNCHANGED <<globalConfig, pushed>>
    /\ CfgFrame

\* GetConfig(pluginType, key): the variable's value, or an error when
\* os.Getenv gives ""
GetConfig(e, pluginType, key) ==
    LET value == Getenv(e, EnvVarName(pluginType, key))
    IN [value |-> value, err |-> value = <<>>]

\* API: config.GetConfig(pluginType, key)
DoGetConfig(pluginType, key) ==
    /\ Idle
    /\ EnvVarName(pluginType, key) \in EnvNames
    /\ LET r == GetConfig(env, pluginType, key)
       IN last' = EnvCall("GetConfig", pluginType, key, r.err, r.value)
    /\ UNCHANGED <<globalConfig, env, pushed>>
    /\ CfgFrame

\* the config package inside a storage plugin library, whose environment
\* and configuration file vary
InitCfg == Init /\ kind = "storage"

NextCfg ==
    \/ \E doc \in JsonDocs : DoSetConfigFromJSON(doc)
    \/ \E pluginType \in {"storage", "auth"} : DoLoadConfigAndSetEnvVars(pluginType)
    \/ \E fn \in {"LoadGeneralPluginConfig", "LoadAllGeneralPluginConfigs"} :
         DoLoadGeneralPluginConfig(fn)
    \/ \E pluginType \in {"storage", "auth"}, key \in {"bucket", "region"} :
         DoGetConfig(pluginType, key)
    \/ \E getter \in {"GetConfigValue", "GetPluginConfigValue",
                      "GetServerConfigValue"}, key \in CfgKeys :
         DoGetConfigValue(getter, key)
    \/ Return

SpecCfg == InitCfg /\ [][NextCfg]_vars

\* ------------------------------------------------------ boolean getters
\* strings.ToLower on one character (the letters that occur in the modelled
\* values; every other character is its own lower case)
ToLowerRune(c) ==
    CASE c = "T" -> "t" [] c = "R" -> "r" [] c = "U" -> "u" [] c = "E" -> "e"
      [] c = "Y" -> "y" [] c = "S" -> "s" [] c = "O" -> "o" [] c = "N" -> "n"
      [] c = "F" -> "f" [] c = "A" -> "a" [] c = "L" -> "l"
      [] OTHER -> c

\* strings.ToLower
ToLower(value) == [i \in DOMAIN value |-> ToLowerRune(value[i])]

\* a test that compares the value as it is
Truthy_NoLower(value) ==
    \/ value = <<"t", "r", "u", "e">> \/ value = <<"1">>
    \/ value = <<"y", "e", "s">> \/ value = <<"o", "n">>

\* v := strings.ToLower(value); v == "true" || v == "1" || v == "yes" || v == "on"
Truthy(value) ==
    LET v == ToLower(value)
    IN \/ v = <<"t", "r", "u", "e">> \/ v = <<"1">>
       \/ v = <<"y", "e", "s">> \/ v = <<"o", "n">>

\* GetBool(key), GetPluginBool(key), GetServerBool(key) over the global
\* config, (*InMemoryConfigProvider).GetBool(key) of the provider that uses
\* the global config, and GetConfigBool(pluginType, key) over the environment
GetBool(getter, cfg, e, pluginType, key) ==
    CASE getter = "GetPluginBool" ->
            LET r == GetPluginConfigValue(cfg, key) IN r.found /\ Truthy(r.value)
      [] getter = "GetServerBool" ->
            LET r == GetServerConfigValue(cfg, key) IN r.found /\ Truthy(r.value)
      [] getter = "GetConfigBool" ->
            Truthy(Getenv(e, EnvVarName(pluginType, key)))
      [] OTHER ->
            LET r == GetConfigValue(cfg, key) IN r.found /\ Truthy(r.value)

BoolGetters ==
    {"GetBool", "GetPluginBool", "GetServerBool", "provider.GetBool", "GetConfigBool"}

\* the upper-case form of a letter
UpperRune(c) ==
    CASE c = "t" -> "T" [] c = "r" -> "R" [] c = "u" -> "U" [] c = "e" -> "E"
      [] c = "y" -> "Y" [] c = "s" -> "S" [] c = "o" -> "O" [] c = "n" -> "N"
      [] c = "f" -> "F" [] c = "a" -> "A" [] c = "l" -> "L"
      [] OTHER -> c

\* a word in every letter case
LetterCases(w) ==
    {[i \in DOMAIN w |-> IF i \in U THEN UpperRune(w[i]) ELSE w[i]] :
        U \in SUBSET DOMAIN w}

\* the values a host configures: the four words that mean true, words that
\* do not, near misses and the empty string, in every letter case
BoolTexts ==
    UNION {LetterCases(w) :
             w \in {<<"t", "r", "u", "e">>, <<"1">>, <<"y", "e", "s">>, <<"o", "n">>,
                    <<"f", "a", "l", "s", "e">>, <<"0">>, <<"n", "o">>,
                    <<"o", "f", "f">>, <<"t", "r", "u">>, <<" ", "o", "n">>,
                    <<"y">>, <<>>}}

\* API: one of the boolean getters is called
DoGetBool(getter, pluginType, key) ==
    /\ Idle
    /\ last' = [fn |-> getter, pluginType |-> pluginType, key |-> key,
                b |-> GetBool(getter, globalConfig, env, pluginType, key)]
    /\ UNCHANGED <<globalConfig, env, pushed>>
    /\ CfgFrame

\* the value is configured in the plugin_config or server_config section of
\* the pushed blob, in the environment, or nowhere
InitBool ==
    /\ kind = "general"
    /\ alive = "running"
    /\ registeredPlugin = Nil
    /\ pluginInitializer = Nil
    /\ provider = Nil
    /\ pluginInstance = Nil
    /\ isInitialized = FALSE
    /\ yamlFile = NoFile
    /\ failStreak = 0
    /\ lastReg = Nil
    /\ justReg = FALSE
    /\ last = NoCall
    /\ threads = <<>>
    /\ created = 0
    /\ explicitReg = FALSE
    /\ owned = {}
    /\ store = <<>>
    /\ returned = NotTaken
    /\ pushed = FALSE
    /\ exported = {}
    /\ cleaned = Nil
    /\ inited = Nil
    /\ \E value \in BoolTexts :
          \/ /\ \E section \in {"plugin_config", "server_config"} :
                   globalConfig =
                     MapConfig([x \in {section} |->
                                  [t |-> "map", s |-> "", m |-> [y \in {"k"} |-> value]]])
             /\ env = <<>>
          \/ /\ globalConfig = NilConfig
             /\ env \in {<<>>, [n \in {<<"STORAGE", "BUCKET">>} |-> value]}

NextBool ==
    \/ \E getter \in BoolGetters \ {"GetConfigBool"}, key \in {"k", "absent"} :
         DoGetBool(getter, "", key)
    \/ \E key \in {"bucket", "region"} : DoGetBool("GetConfigBool", "storage", key)
    \/ Return

SpecBool == InitBool /\ [][NextBool]_vars

\* ------------------------------------------- cache reference provider
\* keys the host stores values under
RefKeys == {"k", "j"}

\* values the host stores: "", a, 1, "a" and b
RefValues == CacheValues \cup {<<98>>}

\* the provider a cache plugin's init() hands to SetProvider
RefProvider == CHOOSE p \in Plugins : TRUE

\* the exports of the round trip
RefFns == {f \in CacheFns :
             f.name \in {"cache_get", "cache_set", "cache_delete", "cache_exists"}}

\* the map-backed provider's Get, Set, Delete and Exists on the entries st:
\* Get of a missing key gives "", Delete and Exists tell whether the key
\* was there
RefOutcome(f, st, key) ==
    CASE f.name = "cache_get" ->
            Outcome("ok", NoStr, TRUE,
                    GoStr("", IF key \in DOMAIN st THEN st[key] ELSE <<>>), "nil")
      [] f.name \in {"cache_delete", "cache_exists"} ->
            Outcome("ok", NoStr, key \in DOMAIN st, NoStr, "nil")
      [] OTHER -> Outcome("ok", NoStr, TRUE, NoStr, "bytes")

\* the provider's entries after the call
RefStore(f, st, key, value) ==
    CASE f.name = "cache_set" ->
            [x \in DOMAIN st \cup {key} |-> IF x = key THEN value ELSE st[x]]
      [] f.name = "cache_delete" -> [x \in DOMAIN st \ {key} |-> st[x]]
      [] OTHER -> st

\* export: cache_get(key), cache_set({key, value, ttl}), cache_delete(key),
\* cache_exists(key) over the map-backed provider
RefCall(f, key, value) ==
    /\ Running("cache")
    /\ f.name # "cache_set" => value = <<>>
    /\ LET r == CacheExport(f, provider, IF f.json THEN "wellformed" ELSE "text",
                            RefOutcome(f, store, key))
       IN /\ store' = IF r.invoked = Nil THEN store
                                         ELSE RefStore(f, store, key, value)
          /\ last' = [fn |-> f.name, key |-> key, value |-> value, ret |-> r.ret,
                      invoked |-> r.invoked]
    /\ justReg' = FALSE
    /\ UNCHANGED <<kind, alive, registeredPlugin, pluginInitializer, provider,
                   pluginInstance, isInitialized, globalConfig, env, yamlFile,
                   failStreak, lastReg, owned, returned, pushed, exported,
                cleaned, inited>>
    /\ UNCHANGED concVars

InitRef == Init /\ kind = "cache"

NextRef ==
    \/ SetProvider(RefProvider) /\ UNCHANGED concVars /\ UNCHANGED hostVars
    \/ \E f \in RefFns, key \in RefKeys, value \in RefValues : RefCall(f, key, value)
    \/ Return

SpecRef == InitRef /\ [][NextRef]_vars

\* ------------------------------------------------ GetGlobalConfig's copy
\* GetGlobalConfig(): a new map that gets every top-level entry of the
\* store by assignment (result[k] = v); a section is a Go map, so the entry
\* of the new map and the entry of the store are the same section
GetGlobalConfig(cfg) ==
    [taken |-> TRUE,
     m |-> IF cfg.isnil THEN EmptyObject ELSE cfg.m,
     shared |-> IF cfg.isnil THEN {}
                ELSE {key \in DOMAIN cfg.m : cfg.m[key].t = "map"}]

\* the record kept of a step of the caller that holds the returned map
CopyCall(fn, key) == [fn |-> fn, key |-> key]

\* API: config.GetGlobalConfig()
DoGetGlobalConfig ==
    /\ Idle
    /\ returned' = GetGlobalConfig(globalConfig)
    /\ last' = CopyCall("GetGlobalConfig", "")
    /\ UNCHANGED <<kind, alive, registeredPlugin, pluginInitializer, provider,
                   pluginInstance, isInitialized, globalConfig, env, yamlFile,
                   failStreak, lastReg, justReg, threads, created, explicitReg,
                   owned, store, pushed, exported,
                cleaned, inited>>

\* the caller assigns or deletes a top-level entry of the returned map:
\* result[key] = value, delete(result, key)
MutateTop(key, value, del) ==
    /\ Idle
    /\ returned.taken
    /\ returned' =
          [returned EXCEPT
             !.m = IF del THEN [x \in DOMAIN @ \ {key} |-> @[x]]
                   ELSE [x \in DOMAIN @ \cup {key} |-> IF x = key THEN value ELSE @[x]],
             !.shared = @ \ {key}]
    /\ last' = CopyCall("mutate", key)
    /\ UNCHANGED <<kind, alive, registeredPlugin, pluginInitializer, provider,
                   pluginInstance, isInitialized, globalConfig, env, yamlFile,
                   failStreak, lastReg, justReg, threads, created, explicitReg,
                   owned, store, pushed, exported,
                cleaned, inited>>

\* the caller assigns an entry inside a section of the returned map:
\* result[section].(map[string]interface{})[key] = value; the section the
\* store still shares changes with it
MutateNested(section, key, value) ==
    /\ Idle
    /\ returned.taken
    /\ section \in DOMAIN returned.m
    /\ returned.m[section].t = "map"
    /\ LET sec == [returned.m[section] EXCEPT
                     !.m = [x \in DOMAIN @ \cup {key} |->
                              IF x = key THEN value ELSE @[x]]]
       IN /\ returned' = [returned EXCEPT !.m[section] = sec]
          /\ globalConfig' = IF section \in returned.shared
                             THEN [globalConfig EXCEPT !.m[section] = sec]
                             ELSE globalConfig
    /\ last' = CopyCall("mutate", key)
    /\ UNCHANGED <<kind, alive, registeredPlugin, pluginInitializer, provider,
                   pluginInstance, isInitialized, env, yamlFile,
                   failStreak, lastReg, justReg, threads, created, explicitReg,
                   owned, store, pushed, exported,
                cleaned, inited>>

\* the host pushes one blob; a caller then takes the map and changes it
NextCopy ==
    \/ \E doc \in JsonDocs : globalConfig.isnil /\ DoSetConfigFromJSON(doc)
    \/ DoGetGlobalConfig
    \/ \E key \in TopKeys, del \in BOOLEAN :
         MutateTop(key, [t |-> "str", s |-> "v1", m |-> EmptyMap], del)
    \/ \E section \in TopKeys, key \in CfgKeys, value \in CfgValues :
         MutateNested(section, key, value)
    \/ \E getter \in {"GetConfigValue", "GetPluginConfigValue",
                      "GetServerConfigValue"}, key \in CfgKeys :
         DoGetConfigValue(getter, key)
    \/ Return

InitCopy == InitCfg /\ env = <<>> /\ yamlFile = NoFile

SpecCopy == InitCopy /\ [][NextCopy]_vars

\* ------------------------------------- general lifecycle, concurrent callers
\* host threads inside init_plugin, initialize_with_config and
\* cleanup_plugin: idle; "got" after getPlugin(); "locked" after
\* pluginMutex.Lock(); "call" after the isInitialized test, about to call the
\* plugin; "inPlugin" inside plugin.Initialize() or plugin.Cleanup()
LifeOps == {"init_plugin", "initialize_with_config", "cleanup_plugin"}

LifeThread(op, pc, plugin, ret, n) ==
    [op |-> op, pc |-> pc, plugin |-> plugin, ret |-> ret, calls |-> n]

\* C.int 1 / 0 of init_plugin and cleanup_plugin, C.bool of
\* initialize_with_config
LifeRet(op, b) == IF op = "initialize_with_config" THEN CBool(b) ELSE CInt(b)

\* the goroutine is between pluginMutex.Lock() and the deferred Unlock()
HoldsLock(th) == th.pc \in {"locked", "call", "inPlugin"}

\* a mutex that never makes a caller wait
LockFree_Always(ths) == TRUE

\* pluginMutex can be taken (Lock, or RLock in getPlugin): no goroutine
\* holds it
LockFree(ths) == \A u \in DOMAIN ths : ~HoldsLock(ths[u])

LifeFrame ==
    UNCHANGED <<kind, registeredPlugin, pluginInitializer, provider,
                pluginInstance, env, yamlFile, failStreak, lastReg, justReg,
                last, created, explicitReg, owned, store, returned, pushed, exported,
                cleaned, inited>>

\* plugin := getPlugin(); if plugin == nil { return 0 }
LifeBegin(t, op) ==
    /\ Idle
    /\ threads[t].pc = "idle"
    /\ threads[t].calls < MaxCalls
    /\ LockFree(threads)
    /\ LET plugin == getPlugin(pluginInstance)
           n == threads[t].calls + 1
       IN threads' =
            [threads EXCEPT ![t] =
               IF plugin = Nil
               THEN LifeThread(op, "idle", Nil, LifeRet(op, FALSE), n)
               ELSE LifeThread(op, "got", plugin, NoResult, n)]
    /\ UNCHANGED <<alive, isInitialized, globalConfig>>
    /\ LifeFrame

\* pluginMutex.Lock()
LifeLock(t) ==
    /\ Idle
    /\ threads[t].pc = "got"
    /\ LockFree(threads)
    /\ threads' = [threads EXCEPT ![t].pc = "locked"]
    /\ UNCHANGED <<alive, isInitialized, globalConfig>>
    /\ LifeFrame

\* under the lock: initialize_with_config pushes the blob and returns false
\* when that fails; then the isInitialized test, which returns 1 / true
\* when there is nothing to do
LifeCheck(t, doc) ==
    /\ Idle
    /\ threads[t].pc = "locked"
    /\ doc \in BootDocs
    /\ threads[t].op # "initialize_with_config" => doc = NullDoc
    /\ LET op == threads[t].op
           c == IF op = "initialize_with_config"
                THEN SetConfigFromJSON(DocString(doc), globalConfig)
                ELSE [err |-> FALSE, cfg |-> globalConfig]
           done == IF op = "cleanup_plugin" THEN ~isInitialized ELSE isInitialized
       IN /\ globalConfig' = c.cfg
          /\ threads' =
                [threads EXCEPT ![t] =
                   IF c.err THEN [@ EXCEPT !.pc = "idle", !.ret = LifeRet(op, FALSE)]
                   ELSE IF done THEN [@ EXCEPT !.pc = "idle", !.ret = LifeRet(op, TRUE)]
                   ELSE [@ EXCEPT !.pc = "call"]]
    /\ UNCHANGED <<alive, isInitialized>>
    /\ LifeFrame

\* success := plugin.Initialize() / plugin.Cleanup(): the call is made
LifeInvoke(t) ==
    /\ Idle
    /\ threads[t].pc = "call"
    /\ threads' = [threads EXCEPT ![t].pc = "inPlugin"]
    /\ UNCHANGED <<alive, isInitialized, globalConfig>>
    /\ LifeFrame

\* the plugin method returns (or panics, which nothing recovers):
\* if success { isInitialized = true / false; return 1 }; return 0
LifeReturn(t, out) ==
    /\ Idle
    /\ threads[t].pc = "inPlugin"
    /\ out \in BoolOutcomes
    /\ LET op == threads[t].op
       IN IF out.t = "panic"
          THEN /\ alive' = "crashed"
               /\ threads' = [threads EXCEPT ![t].pc = "idle", ![t].ret = Crash]
               /\ UNCHANGED isInitialized
          ELSE /\ isInitialized' = IF out.b THEN op # "cleanup_plugin"
                                            ELSE isInitialized
               /\ threads' = [threads EXCEPT ![t].pc = "idle",
                                             ![t].ret = LifeRet(op, out.b)]
               /\ UNCHANGED alive
    /\ UNCHANGED globalConfig
    /\ LifeFrame

InitLife ==
    /\ kind = "general"
    /\ alive = "running"
    /\ registeredPlugin = Nil
    /\ pluginInitializer = Nil
    /\ provider = Nil
    /\ pluginInstance = Nil
    /\ isInitialized = FALSE
    /\ globalConfig = NilConfig
    /\ env = <<>>
    /\ yamlFile = NoFile
    /\ failStreak = 0
    /\ lastReg = Nil
    /\ justReg = FALSE
    /\ last = NoCall
    /\ threads = [t \in Threads |-> LifeThread("", "idle", Nil, NoResult, 0)]
    /\ created = 0
    /\ explicitReg = FALSE
    /\ owned = {}
    /\ store = <<>>
    /\ returned = NotTaken
    /\ pushed = FALSE
    /\ exported = {}
    /\ cleaned = Nil
    /\ inited = Nil

\* the plugin's init() exports one plugin; host threads call the lifecycle
\* exports
NextLife ==
    \/ /\ pluginInstance = Nil
       /\ LockFree(threads)
       /\ \E p \in Plugins, out \in StringOutcomes : ExportPlugin(p, out)
       /\ UNCHANGED concVars
       /\ UNCHANGED hostVars
    \/ \E t \in Threads, op \in LifeOps : LifeBegin(t, op)
    \/ \E t \in Threads : LifeLock(t)
    \/ \E t \in Threads, doc \in BootDocs : LifeCheck(t, doc)
    \/ \E t \in Threads : LifeInvoke(t)
    \/ \E t \in Threads, out \in BoolOutcomes : LifeReturn(t, out)
    \/ Return

SpecLife == InitLife /\ [][NextLife]_vars

\* ------------------------------------ BasePluginConfig over the global config
\* NewBasePluginConfig(pluginType)
NewBasePluginConfig(pluginType) == [pluginType |-> ToUpper(pluginType)]

\* (*InMemoryConfigProvider).GetPluginConfig(pluginType, key) of the provider
\* that uses the global config
ProviderGetPluginConfig(cfg, pluginType, key) ==
    GetPluginConfigValue(cfg, EnvVarName(pluginType, key))

\* (*InMemoryConfigProvider).GetOrDefault(key, defaultValue), through
\* GetConfigByKey, of the provider that uses the global config
ProviderGetOrDefault(cfg, key, defaultValue) ==
    LET r == GetConfigValue(cfg, key)
    IN IF r.found THEN r.value ELSE defaultValue

\* (*BasePluginConfig).GetConfig(provider, key): [value, err]
BaseGetConfig(c, cfg, key) ==
    LET r == ProviderGetPluginConfig(cfg, c.pluginType, key)
    IN IF r.found THEN [value |-> r.value, err |-> FALSE]
       ELSE [value |-> "", err |-> TRUE]

\* (*BasePluginConfig).GetConfigOptional(provider, key): [value, found]
BaseGetConfigOptional(c, cfg, key) ==
    LET r == ProviderGetPluginConfig(cfg, c.pluginType, key)
    IN IF r.found THEN [value |-> r.value, found |-> TRUE]
       ELSE [value |-> "", found |-> FALSE]

\* (*BasePluginConfig).GetConfigOrDefault(provider, key, defaultValue):
\* fmt.Sprintf("%s_%s", c.pluginType, strings.ToUpper(key))
BaseGetConfigOrDefault(c, cfg, key, defaultValue) ==
    ProviderGetOrDefault(cfg, <<c.pluginType, ToUpper(key)>>, defaultValue)

\* the plugin types, keys and defaults a plugin asks with
BaseTypes == {"storage", "Storage", "STORAGE", "auth"}

BaseKeys == {"bucket", "BUCKET", "region"}

BaseDefaults == {"d", "v1"}

\* the stores a host pushes: the composed key STORAGE_BUCKET in plugin_config,
\* in server_config, in both or in neither
BaseStores ==
    {NilConfig}
        \cup {MapConfig([x \in {"plugin_config", "server_config"} |->
                           [t |-> "map", s |-> "",
                            m |-> IF x = "plugin_config" THEN pm ELSE sm]]) :
                pm \in UNION {[D -> CfgValues] : D \in SUBSET {<<"STORAGE", "BUCKET">>}},
                sm \in UNION {[D -> CfgValues] : D \in SUBSET {<<"STORAGE", "BUCKET">>}}}

\* API: one getter of a plugin's BasePluginConfig is called
DoBaseGet(getter, pluginType, key, d) ==
    /\ Idle
    /\ LET c == NewBasePluginConfig(pluginType)
       IN last' =
            [fn |-> getter, pluginType |-> pluginType, key |-> key, d |-> d,
             got |-> CASE getter = "GetConfig" ->
                            LET r == BaseGetConfig(c, globalConfig, key)
                            IN [value |-> r.value, ok |-> ~r.err]
                       [] getter = "GetConfigOptional" ->
                            LET r == BaseGetConfigOptional(c, globalConfig, key)
                            IN [value |-> r.value, ok |-> r.found]
                       [] OTHER ->
                            [value |-> BaseGetConfigOrDefault(c, globalConfig, key, d),
                             ok |-> TRUE]]
    /\ UNCHANGED <<globalConfig, pushed>>
    /\ CfgFrame

InitBase ==
    /\ kind = "storage"
    /\ alive = "running"
    /\ registeredPlugin = Nil
    /\ pluginInitializer = Nil
    /\ provider = Nil
    /\ pluginInstance = Nil
    /\ isInitialized = FALSE
    /\ globalConfig \in BaseStores
    /\ env = <<>>
    /\ yamlFile = NoFile
    /\ failStreak = 0
    /\ lastReg = Nil
    /\ justReg = FALSE
    /\ last = NoCall
    /\ threads = <<>>
    /\ created = 0
    /\ explicitReg = FALSE
    /\ owned = {}
    /\ store = <<>>
    /\ returned = NotTaken
    /\ pushed = FALSE
    /\ exported = {}
    /\ cleaned = Nil
    /\ inited = Nil

NextBase ==
    \/ \E getter \in {"GetConfig", "GetConfigOptional", "GetConfigOrDefault"},
          pluginType \in BaseTypes, key \in BaseKeys, d \in BaseDefaults :
         DoBaseGet(getter, pluginType, key, d)
    \/ Return

SpecBase == InitBase /\ [][NextBase]_vars

\* ----------------------------------------------------- cache TTL conversion
\* machine words are modelled DurationBits wide (64 in the build) and a
\* second has Second ticks (time.Second is 1e9 ns in the build); the
\* arithmetic wraps as that of uint64 and int64 does
DurationBits == 6

Second == 5

\* a *uint64 or *time.Duration: nil, or a pointer to v
NilPtr == [null |-> TRUE, v |-> 0]

PtrTo(v) == [null |-> FALSE, v |-> v]

\* the values of a uint64
Uint64 == 0 .. (2^DurationBits - 1)

\* the conversion of an unsigned word to the signed type of the same width
AsInt64(u) == IF u >= 2^(DurationBits - 1) THEN u - 2^DurationBits ELSE u

\* the signed word a product wraps to
WrapInt64(x) == AsInt64(x % 2^DurationBits)

\* SecondsToDuration: time.Duration(*seconds) * time.Second
SecondsToDuration(seconds) ==
    IF seconds.null THEN NilPtr
    ELSE PtrTo(WrapInt64(AsInt64(seconds.v) * Second))

\* DurationToSeconds: uint64(duration.Seconds()), as the set of results a
\* build can give: the conversion of a negative float64 to uint64 is
\* implementation-dependent
DurationToSeconds(duration) ==
    IF duration.null THEN {NilPtr}
    ELSE IF duration.v >= 0 THEN {PtrTo(duration.v \div Second)}
    ELSE {PtrTo(u) : u \in Uint64}

\* the TTLs a request carries: "ttl" absent, or any uint64
Ttls == {NilPtr} \cup {PtrTo(s) : s \in Uint64}

\* a TTL is converted and converted back
DoTtlRoundTrip(ttl, back) ==
    /\ Running("cache")
    /\ ttl \in Ttls
    /\ back \in DurationToSeconds(SecondsToDuration(ttl))
    /\ last' = [fn |-> "DurationToSeconds", ttl |-> ttl,
                duration |-> SecondsToDuration(ttl), back |-> back]
    /\ UNCHANGED <<kind, alive, registeredPlugin, pluginInitializer, provider,
                   pluginInstance, isInitialized, globalConfig, env, yamlFile,
                   failStreak, lastReg, justReg>>

\* export: cache_set / cache_set_multiple with a request that decodes and
\* carries ttl; the provider's Set / SetMultiple is handed
\* SecondsToDuration(req.TTL)
CacheSetTtl(f, ttl, out) ==
    /\ Running("cache")
    /\ f.name \in {"cache_set", "cache_set_multiple"}
    /\ ttl \in Ttls
    /\ LET r == CacheExport(f, provider, "wellformed", out)
       IN /\ out \in OutcomeChoices(r.invoked, CacheOutcomes(f))
          /\ alive' = AliveAfter(r.ret)
          /\ last' = [fn |-> f.name, ttl |-> ttl, invoked |-> r.invoked,
                      duration |-> IF r.invoked = Nil THEN NilPtr
                                   ELSE SecondsToDuration(ttl),
                      ret |-> r.ret]
    /\ justReg' = FALSE
    /\ UNCHANGED <<kind, registeredPlugin, pluginInitializer, provider,
                   pluginInstance, isInitialized, globalConfig, env, yamlFile,
                   failStreak, lastReg>>

InitTtl == Init /\ kind = "cache"

NextTtl ==
    \/ /\ \E p \in Plugins \cup {Nil} : SetProvider(p)
       /\ UNCHANGED concVars
       /\ UNCHANGED hostVars
    \/ /\ \E ttl \in Ttls :
            \E back \in DurationToSeconds(SecondsToDuration(ttl)) :
               DoTtlRoundTrip(ttl, back)
       /\ UNCHANGED concVars
       /\ UNCHANGED hostVars
    \/ /\ \E f \in CacheFns, ttl \in Ttls, out \in ErrOutcomes \cup {NoOutcome} :
            CacheSetTtl(f, ttl, out)
       /\ UNCHANGED concVars
       /\ UNCHANGED hostVars
    \/ Return

SpecTtl == InitTtl /\ [][NextTtl]_vars

\* --------------------------------- pluginMutex and configMutex, step by step
\* goroutines inside the general library and the config package, one lock
\* operation per step. A thread's pc: "getPlugin" / "inGetPlugin" around
\* getPlugin()'s RLock .. RUnlock, "lockP" / "waitP" around
\* pluginMutex.Lock(), "lockC" / "waitC" / "setC" inside
\* config.SetConfigFromJSON, "rlockC" / "inGetC" inside a config getter,
\* "check" at the isInitialized test, "assign" in ExportPlugin, "callback"
\* when the plugin's method is entered, "cbRlockC" / "cbInGetC" while that
\* method reads the configuration, "cbReturn" when it is about to return
LockThread(op, pc, arg, held, pending, n) ==
    [op |-> op, pc |-> pc, arg |-> arg, held |-> held, pending |-> pending,
     calls |-> n]

IdleLockThread == LockThread("", "idle", "", {}, "", 0)

RECURSIVE Started(_, _)
\* the number of calls the threads in ts have started
Started(ths, ts) ==
    IF ts = {} THEN 0
    ELSE LET t == CHOOSE u \in ts : TRUE
         IN ths[t].calls + Started(ths, ts \ {t})

\* the calls the host and the plugin start in one run
MaxLockCalls == 3

LockLifeOps == {"init_plugin", "initialize_with_config", "cleanup_plugin"}

LockEvents == {"on_user_client_authorization_revoked"}

LockDocs ==
    {d \in BootDocs : \/ d.kind = "malformed"
                      \/ d.kind = "object" /\ "plugin_config" \in DOMAIN d.obj}

\* the calls a host thread or a plugin goroutine can start, each with its
\* argument: the plugin, the payload, the configuration text or the key
LockCalls ==
    {<<"ExportPlugin", p>> : p \in Plugins}
        \cup {<<op, "">> : op \in {"init_plugin", "cleanup_plugin"}}
        \cup {<<"initialize_with_config", d>> : d \in LockDocs}
        \cup {<<ev, payload>> : ev \in LockEvents,
                                payload \in {"malformed", "wellformed"}}
        \cup {<<"SetConfigFromJSON", d>> : d \in LockDocs}
        \cup {<<"GetConfigValue", "k">>}

\* where a call starts
Entry(op) ==
    CASE op = "ExportPlugin" -> "lockP"
      [] op = "SetConfigFromJSON" -> "lockC"
      [] op = "GetConfigValue" -> "rlockC"
      [] OTHER -> "getPlugin"

\* the mutex a pc is about: pluginMutex "P" or configMutex "C"
MutexAt(pc) ==
    IF pc \in {"getPlugin", "inGetPlugin", "lockP", "waitP"} THEN "P" ELSE "C"

Holds(ths, m, mode) == {u \in DOMAIN ths : <<m, mode>> \in ths[u].held}

Waiting(ths, m) == {u \in DOMAIN ths : ths[u].pending = m}

\* sync.RWMutex.RLock returns: no writer holds the mutex and none is waiting
\* for it (a waiting writer keeps new readers out)
CanRLock(ths, m) == Holds(ths, m, "w") = {} /\ Waiting(ths, m) = {}

\* sync.RWMutex.Lock, first half: the writers' inner mutex is taken and the
\* writer announced, which no other announced or holding writer allows
CanAnnounce(ths, m) == Holds(ths, m, "w") = {} /\ Waiting(ths, m) = {}

\* sync.RWMutex.Lock, second half: the readers have left
CanAcquire(ths, m) == Holds(ths, m, "r") = {}

\* a read lock that is never given back
RUnlock_Never(held, m) == held

\* the deferred RUnlock() of getPlugin and of the config getters
RUnlock(held, m) == held \ {<<m, "r">>}

LockFrame ==
    UNCHANGED <<kind, registeredPlugin, pluginInitializer, provider, env,
                yamlFile, failStreak, lastReg, justReg, last, created,
                explicitReg, owned, store, returned, pushed, exported,
                cleaned, inited>>

\* a call is started
LkBegin(t, call) ==
    /\ Idle
    /\ call \in LockCalls
    /\ threads[t].pc = "idle"
    /\ Started(threads, Threads) < MaxLockCalls
    /\ threads' = [threads EXCEPT ![t] =
                     LockThread(call[1], Entry(call[1]), call[2], {}, "",
                                threads[t].calls + 1)]
    /\ UNCHANGED <<alive, pluginInstance, isInitialized, globalConfig>>
    /\ LockFrame

\* pluginMutex.RLock() in getPlugin, configMutex.RLock() in a config getter
LkRLock(t) ==
    /\ Idle
    /\ threads[t].pc \in {"getPlugin", "rlockC", "cbRlockC"}
    /\ LET pc == threads[t].pc
           m == MutexAt(pc)
       IN /\ CanRLock(threads, m)
          /\ threads' =
               [threads EXCEPT ![t].held = @ \cup {<<m, "r">>},
                               ![t].pc = CASE pc = "getPlugin" -> "inGetPlugin"
                                           [] pc = "rlockC" -> "inGetC"
                                           [] OTHER -> "cbInGetC"]
    /\ UNCHANGED <<alive, pluginInstance, isInitialized, globalConfig>>
    /\ LockFrame

\* the read under the read lock and the deferred RUnlock(): getPlugin returns
\* pluginInstance, and the caller returns on nil (an event export also on a
\* payload that does not decode); a config getter returns
LkRUnlock(t) ==
    /\ Idle
    /\ threads[t].pc \in {"inGetPlugin", "inGetC", "cbInGetC"}
    /\ LET th == threads[t]
           m == MutexAt(th.pc)
           plugin == getPlugin(pluginInstance)
           next == CASE th.pc = "inGetC" -> "idle"
                     [] th.pc = "cbInGetC" -> "cbReturn"
                     [] plugin = Nil -> "idle"
                     [] th.op \in LockLifeOps -> "lockP"
                     [] th.arg = "wellformed" -> "callback"
                     [] OTHER -> "idle"
       IN threads' =
            [threads EXCEPT ![t].held = RUnlock(@, m), ![t].pc = next]
    /\ UNCHANGED <<alive, pluginInstance, isInitialized, globalConfig>>
    /\ LockFrame

\* pluginMutex.Lock() / configMutex.Lock() is called: the writer is announced
LkAnnounce(t) ==
    /\ Idle
    /\ threads[t].pc \in {"lockP", "lockC"}
    /\ LET m == MutexAt(threads[t].pc)
       IN /\ CanAnnounce(threads, m)
          /\ threads' = [threads EXCEPT ![t].pending = m,
                                        ![t].pc = IF m = "P" THEN "waitP" ELSE "waitC"]
    /\ UNCHANGED <<alive, pluginInstance, isInitialized, globalConfig>>
    /\ LockFrame

\* Lock() returns: ExportPlugin goes on to its assignment,
\* initialize_with_config to config.SetConfigFromJSON, init_plugin and
\* cleanup_plugin to the isInitialized test, SetConfigFromJSON to its body
LkAcquire(t) ==
    /\ Idle
    /\ threads[t].pc \in {"waitP", "waitC"}
    /\ LET th == threads[t]
           m == th.pending
       IN /\ CanAcquire(threads, m)
          /\ threads' =
               [threads EXCEPT ![t].held = @ \cup {<<m, "w">>},
                               ![t].pending = "",
                               ![t].pc = CASE m = "C" -> "setC"
                                           [] th.op = "ExportPlugin" -> "assign"
                                           [] th.op = "initialize_with_config" -> "lockC"
                                           [] OTHER -> "check"]
    /\ UNCHANGED <<alive, pluginInstance, isInitialized, globalConfig>>
    /\ LockFrame

\* the body of config.SetConfigFromJSON and its deferred Unlock(); called
\* from initialize_with_config an error makes that export return false and
\* give pluginMutex back
LkSetConfig(t) ==
    /\ Idle
    /\ threads[t].pc = "setC"
    /\ LET th == threads[t]
           c == SetConfigFromJSON(DocString(th.arg), globalConfig)
           inner == th.op = "initialize_with_config"
       IN /\ globalConfig' = c.cfg
          /\ threads' =
               [threads EXCEPT ![t].held = IF inner /\ ~c.err THEN {<<"P", "w">>} ELSE {},
                               ![t].pc = IF inner /\ ~c.err THEN "check" ELSE "idle"]
    /\ UNCHANGED <<alive, pluginInstance, isInitialized>>
    /\ LockFrame

\* if isInitialized { return } (cleanup_plugin: if !isInitialized), with the
\* deferred pluginMutex.Unlock()
LkCheck(t) ==
    /\ Idle
    /\ threads[t].pc = "check"
    /\ LET done == IF threads[t].op = "cleanup_plugin"
                   THEN ~isInitialized ELSE isInitialized
       IN threads' = [threads EXCEPT ![t].held = IF done THEN {} ELSE @,
                                     ![t].pc = IF done THEN "idle" ELSE "callback"]
    /\ UNCHANGED <<alive, pluginInstance, isInitialized, globalConfig>>
    /\ LockFrame

\* ExportPlugin: pluginInstance = plugin, then plugin.GetPluginName()
LkAssign(t) ==
    /\ Idle
    /\ threads[t].pc = "assign"
    /\ pluginInstance' = threads[t].arg
    /\ threads' = [threads EXCEPT ![t].pc = "callback"]
    /\ UNCHANGED <<alive, isInitialized, globalConfig>>
    /\ LockFrame

\* inside the plugin's method, which may read the configuration through a
\* config getter and calls no export of the library
LkCallback(t, reads) ==
    /\ Idle
    /\ threads[t].pc = "callback"
    /\ threads' = [threads EXCEPT ![t].pc = IF reads THEN "cbRlockC" ELSE "cbReturn"]
    /\ UNCHANGED <<alive, pluginInstance, isInitialized, globalConfig>>
    /\ LockFrame

\* the plugin's method returns, the export assigns isInitialized where it
\* does, and the deferred Unlock() runs; a panic is recovered by nothing
LkCallbackReturn(t, out) ==
    /\ Idle
    /\ threads[t].pc = "cbReturn"
    /\ out \in BoolOutcomes
    /\ LET op == threads[t].op
       IN IF out.t = "panic"
          THEN /\ alive' = "crashed"
               /\ UNCHANGED isInitialized
          ELSE /\ isInitialized' = IF op \in LockLifeOps /\ out.b
                                   THEN op # "cleanup_plugin" ELSE isInitialized
               /\ UNCHANGED alive
    /\ threads' = [threads EXCEPT ![t].held = {}, ![t].pc = "idle"]
    /\ UNCHANGED <<pluginInstance, globalConfig>>
    /\ LockFrame

\* the steps of one goroutine once its call has started
LkStep(t) ==
    \/ LkRLock(t)
    \/ LkRUnlock(t)
    \/ LkAnnounce(t)
    \/ LkAcquire(t)
    \/ LkSetConfig(t)
    \/ LkCheck(t)
    \/ LkAssign(t)
    \/ \E reads \in BOOLEAN : LkCallback(t, reads)
    \/ \E out \in BoolOutcomes : LkCallbackReturn(t, out)

InitLock ==
    /\ kind = "general"
    /\ alive = "running"
    /\ registeredPlugin = Nil
    /\ pluginInitializer = Nil
    /\ provider = Nil
    /\ pluginInstance = Nil
    /\ isInitialized = FALSE
    /\ globalConfig = NilConfig
    /\ env = <<>>
    /\ yamlFile = NoFile
    /\ failStreak = 0
    /\ lastReg = Nil
    /\ justReg = FALSE
    /\ last = NoCall
    /\ threads = [t \in Threads |-> IdleLockThread]
    /\ created = 0
    /\ explicitReg = FALSE
    /\ owned = {}
    /\ store = <<>>
    /\ returned = NotTaken
    /\ pushed = FALSE
    /\ exported = {}
    /\ cleaned = Nil
    /\ inited = Nil

NextLock ==
    \/ \E t \in Threads, call \in LockCalls : LkBegin(t, call)
    \/ \E t \in Threads : LkRLock(t)
    \/ \E t \in Threads : LkRUnlock(t)
    \/ \E t \in Threads : LkAnnounce(t)
    \/ \E t \in Threads : LkAcquire(t)
    \/ \E t \in Threads : LkSetConfig(t)
    \/ \E t \in Threads : LkCheck(t)
    \/ \E t \in Threads : LkAssign(t)
    \/ \E t \in Threads, reads \in BOOLEAN : LkCallback(t, reads)
    \/ \E t \in Threads, out \in BoolOutcomes : LkCallbackReturn(t, out)

\* the Go scheduler runs every goroutine that can take a step, and a
\* goroutine parked on a mutex is woken when the mutex is given back
SpecLock ==
    /\ InitLock
    /\ [][NextLock]_vars
    /\ \A t \in Threads : WF_vars(LkStep(t))

\* ------------------------------------------------- the general plugin slot
\* the plugins handed to ExportPlugin and the plugin whose Initialize()
\* returned true last are remembered
Exported ==
    /\ exported' = IF last'.fn = "ExportPlugin" /\ pluginInstance' # Nil
                   THEN exported \cup {pluginInstance'} ELSE exported
    /\ inited' = CASE /\ last'.fn \in {"init_plugin", "initialize_with_config"}
                      /\ last'.op = "Initialize" /\ last'.said -> last'.invoked
                   [] last'.op = "Cleanup" /\ last'.said -> Nil
                   [] OTHER -> inited
    /\ UNCHANGED <<owned, store, returned, pushed, cleaned>>

InitSlot == Init /\ kind = "general"

NextSlot ==
    \/ GeneralExports /\ Exported
    \/ Return

SpecSlot == InitSlot /\ [][NextSlot]_vars

\* ------------------------------------------------------------ properties
\* the calls that cross the C boundary (the others are the Go API a plugin's
\* main package uses)
ApiCalls ==
    {"", "RegisterPlugin", "SetPluginInitializer", "GetRegisteredPlugin",
     "ExportPlugin", "SetProvider"}

BoundaryCall == last.fn \notin ApiCalls

HostString(text) == [null |-> FALSE, lit |-> text, bytes |-> <<>>]

\* the failure envelope of a call that found no plugin
NoPluginEnvelope ==
    [shape |-> "FFIResult", success |-> FALSE, data |-> "nil",
     error_msg |-> HostString("No plugin registered"), str |-> NullPtr, b |-> FALSE]

\* the strings that stand for "no plugin" in the char*-returning calls
NoPluginStrings ==
    {NullPtr, HostString("unknown"), HostString("Unknown Go Plugin"),
     HostString("Unknown Cache Provider"), HostString("Unknown Plugin"),
     HostString("0.0.0"), HostString("{\"error\": \"Cache provider not set\"}")}

\* the plugin the slot of this library's package holds
Held ==
    CASE kind \in {"auth", "storage"} -> registeredPlugin
      [] kind = "cache" -> provider
      [] OTHER -> pluginInstance

NameAfterRegistration ==
    /\ last.fn \in {"provider_name", "get_plugin_name"}
    /\ last.afterReg
    /\ last.t = "ok"

HasNul(s) == \E i \in DOMAIN s.tail : s.tail[i] = 0

\* C2 as stated: after a registration the name query returns exactly the
\* string the plugin reports, whatever that string is.
C2_AnyNameComesBack ==
    NameAfterRegistration =>
        /\ last.invoked = lastReg
        /\ last.ret.shape = "cstr"
        /\ last.ret.str = AsHostString(last.reported)

\* C2: after a registration the name query asks the registered plugin and
\* returns exactly the reported string when it has no NUL byte and, in auth
\* and storage, is not empty; auth and storage hand back a null pointer for
\* the empty name, and a name is cut at its first NUL byte.
C2_NameComesBack ==
    NameAfterRegistration =>
        /\ last.invoked = lastReg
        /\ last.ret.shape = "cstr"
        /\ (~HasNul(last.reported)
              /\ (kind \in {"auth", "storage"} => ~IsEmptyStr(last.reported)))
           => last.ret.str = AsHostString(last.reported)
        /\ (kind \in {"auth", "storage"} /\ IsEmptyStr(last.reported))
           => last.ret.str = NullPtr
        /\ HasNul(last.reported) => last.ret.str # AsHostString(last.reported)

C2_Witness ==
    /\ kind = "auth" /\ NameAfterRegistration
    /\ last.reported = GoStr("", <<97, 98>>)
    /\ last.ret.str = AsHostString(last.reported)

\* C3: registration overwrites: the slot always holds the instance of the
\* latest registration, GetRegisteredPlugin returns it, and a boundary call
\* reaches that instance or none.
C3_LatestRegistrationWins ==
    kind \in {"auth", "storage"} =>
        /\ registeredPlugin = lastReg
        /\ last.fn = "GetRegisteredPlugin" => last.got = lastReg
        /\ BoundaryCall => last.invoked \in {Nil, lastReg}

\* RegisterPlugin("B") on a slot that held "A"
C3_Witness ==
    /\ last.fn = "RegisterPlugin" /\ last.got = "A"
    /\ registeredPlugin = "B" /\ lastReg = "B"

\* C4: GetRegisteredPlugin runs the factory exactly when the slot is empty
\* and a factory is set; a plugin the factory returns without error is stored
\* and returned; with a non-empty slot the factory is not run and the held
\* instance is returned and kept.
C4_LazyInitSuccess ==
    [][last'.fn = "GetRegisteredPlugin" =>
        /\ (last'.lazy.status # "none")
              <=> (registeredPlugin = Nil /\ pluginInitializer # Nil)
        /\ (last'.lazy.status # "none" /\ ~last'.lazy.err /\ last'.lazy.made # Nil)
              => /\ last'.lazy.status = "ok"
                 /\ registeredPlugin' = last'.lazy.made
                 /\ last'.got = last'.lazy.made
        /\ registeredPlugin # Nil
              => /\ registeredPlugin' = registeredPlugin
                 /\ last'.got = registeredPlugin]_vars

C4_Witness ==
    /\ last.fn = "GetRegisteredPlugin" /\ last.lazy.status = "ok"
    /\ last.lazy.made = "A" /\ registeredPlugin = "A" /\ last.got = "A"

\* C5: a factory that returns an error or a nil plugin leaves the slot empty
\* and GetRegisteredPlugin returns no instance; the failure is not cached:
\* every GetRegisteredPlugin on a still-empty slot runs the factory again, and
\* the first success after any number of failures is registered.
C5_LazyInitFailure ==
    [][(last'.fn = "GetRegisteredPlugin" /\ registeredPlugin = Nil
            /\ pluginInitializer # Nil) =>
        /\ last'.lazy.status # "none"
        /\ IF last'.lazy.err \/ last'.lazy.made = Nil
           THEN /\ last'.lazy.status = "failed"
                /\ registeredPlugin' = Nil
                /\ last'.got = Nil
                /\ failStreak' = failStreak + 1
           ELSE /\ registeredPlugin' = last'.lazy.made
                /\ last'.got = last'.lazy.made]_vars

\* the factory failed MaxFail times in a row and succeeds on the next call
C5_Witness ==
    /\ last.fn = "GetRegisteredPlugin" /\ last.fails = MaxFail
    /\ last.lazy.status = "ok" /\ registeredPlugin = last.lazy.made

\* C6: the registry slot is safe under concurrent callers: no goroutine is
\* amid a store of the slot while another is amid a load or a store of it,
\* and as long as nobody calls RegisterPlugin the factory makes at most one
\* instance and all GetRegisteredPlugin callers that got an instance got the
\* same one.
\* (pc "storeD" / "loadD": between the two word stores / loads of the slot;
\* pc "idle" with op GetRegisteredPlugin: the call has returned)
C6_RegistrySafeUnderConcurrency ==
    /\ \A t \in Threads : \A u \in Threads \ {t} :
          threads[t].pc = "storeD" => threads[u].pc \notin {"storeD", "loadD"}
    /\ ~explicitReg =>
          /\ created <= 1
          /\ \A t \in Threads : \A u \in Threads :
                (/\ threads[t].pc = "idle" /\ threads[t].op = "GetRegisteredPlugin"
                 /\ threads[u].pc = "idle" /\ threads[u].op = "GetRegisteredPlugin"
                 /\ threads[t].got # Iface(Nil) /\ threads[u].got # Iface(Nil))
                  => threads[t].got = threads[u].got

\* the texts with which the cache exports report an error
CacheErrorTexts ==
    ({f.prefix : f \in CacheFns} \ {""})
        \cup {"{\"error\": \"Cache provider not set\"}",
              "{\"error\": \"Failed to parse config: ",
              "{\"error\": \"Failed to parse request: "}

\* the host can tell from the value that the call failed
IsFailure(ret) ==
    CASE ret.shape = "FFIResult" -> ~ret.success
      [] ret.shape = "cstr" -> ret.str.null \/ ret.str.lit \in CacheErrorTexts
      [] ret.shape \in {"bool", "int"} -> ~ret.b
      [] OTHER -> FALSE

\* C7: a boundary function given a null pointer or an empty string for a
\* string argument (id, path, key, request payload; the configuration blob
\* of initialize and initialize_with_config is not one of them) returns a
\* failure and does not call the plugin.
C7_NullOrEmptyArgumentRejected ==
    (/\ BoundaryCall
     /\ last.fn \notin {"initialize_with_config", "initialize"}
     /\ last.anyNull \/ last.anyEmpty \/ last.payload \in {"null", "empty"})
        => /\ last.invoked = Nil
           /\ alive = "running"
           /\ IsFailure(last.ret)

\* the calls that decode a JSON text before they reach the plugin and that
\* were handed text that is not JSON
MalformedJsonCall(c) ==
    /\ c.fn \in {"initialize_with_config", "create_user", "create_oauth_client",
                 "update_oauth_client"}
    /\ c.payload = "malformed"

\* C8 as stated: malformed JSON yields a failure, the plugin is not called,
\* and the registry slot and the configuration store are what they were.
C8_MalformedJsonChangesNothing ==
    [][MalformedJsonCall(last') =>
        /\ IsFailure(last'.ret)
        /\ last'.invoked = Nil
        /\ last'.fn = "initialize_with_config" => last'.lazy.status = "none"
        /\ registeredPlugin' = registeredPlugin
        /\ pluginInstance' = pluginInstance
        /\ globalConfig' = globalConfig]_vars

\* C8: malformed JSON yields a failure, the plugin is not called and the
\* configuration store is what it was; initialize_with_config leaves the slot
\* alone and runs no factory; create_user, create_oauth_client and
\* update_oauth_client fetch the plugin before they decode, so on an empty
\* slot with a factory set the lazy initialisation runs and may fill the
\* slot, and the failure is the parse failure once a plugin is held and no
\* argument is null.
C8_MalformedJsonRejected ==
    [][MalformedJsonCall(last') =>
        /\ IsFailure(last'.ret)
        /\ last'.invoked = Nil
        /\ alive' = "running"
        /\ globalConfig' = globalConfig
        /\ pluginInstance' = pluginInstance
        /\ IF last'.fn = "initialize_with_config"
           THEN /\ last'.lazy.status = "none"
                /\ registeredPlugin' = registeredPlugin
           ELSE /\ \/ registeredPlugin' = registeredPlugin
                   \/ /\ registeredPlugin = Nil /\ pluginInitializer # Nil
                      /\ last'.lazy.status = "ok"
                      /\ registeredPlugin' = last'.lazy.made
                /\ (registeredPlugin = Nil /\ pluginInitializer # Nil)
                      => last'.lazy.status # "none"
                /\ (registeredPlugin' # Nil /\ ~last'.anyNull)
                      => last'.ret = newErrorResult(Lit("Failed to parse request JSON: "))]_vars

\* create_user with malformed JSON on an empty slot whose factory succeeds
C8_Witness ==
    /\ last.fn = "create_user" /\ last.payload = "malformed"
    /\ last.lazy.status = "ok" /\ registeredPlugin = last.lazy.made
    /\ last.invoked = Nil
    /\ last.ret = newErrorResult(Lit("Failed to parse request JSON: "))

\* C10: a panic inside the plugin's method does not reach the host: the
\* process keeps running and the call returns a failure result.
C10_PluginPanicContained ==
    (BoundaryCall /\ last.t = "panic") =>
        /\ alive = "running"
        /\ IsFailure(last.ret)

\* C9: a successful SetConfigFromJSON(B) leaves exactly the content of B in
\* the store, so every getter answers from B alone whatever was set before;
\* SetConfigFromJSON("") returns an error and leaves the store as it was.
C9_SetConfigReplacesStore ==
    [][last'.fn = "SetConfigFromJSON" =>
        /\ (last'.doc.kind = "object" /\ ~last'.err) =>
              /\ globalConfig' = MapConfig(last'.doc.obj)
              /\ \A key \in CfgKeys :
                    LET B == MapConfig(last'.doc.obj)
                    IN /\ GetConfigValue(globalConfig', key) = GetConfigValue(B, key)
                       /\ GetPluginConfigValue(globalConfig', key)
                             = GetPluginConfigValue(B, key)
                       /\ GetServerConfigValue(globalConfig', key)
                             = GetServerConfigValue(B, key)
        /\ last'.doc.kind = "object" => ~last'.err
        /\ last'.doc.kind = "empty" =>
              /\ last'.err
              /\ globalConfig' = globalConfig]_vars

\* C11: every FFIResult an envelope-returning export (auth or storage) hands
\* back is a success with a null error_msg, or an error with no data and a
\* non-null, non-empty error_msg; this on every path, a panicking plugin
\* method and a plugin error with an empty message included.
C11_EnvelopeWellFormed ==
    (/\ BoundaryCall
     /\ last.fn \in {f.name : f \in AuthEnvelopeFns \cup StorageEnvelopeFns})
        => LET r == last.ret
           IN /\ r.shape = "FFIResult"
              /\ \/ r.success /\ r.error_msg.null
                 \/ /\ ~r.success
                    /\ r.data = "nil"
                    /\ ~r.error_msg.null
                    /\ (r.error_msg.lit # "" \/ r.error_msg.bytes # <<>>)

\* C12: whatever calls were made, every buffer the host still holds can be
\* released by a call of a free function that the same library exports, so
\* the set of outstanding host-owned allocations can be returned to empty.
C12_EveryBufferCanBeFreed ==
    (alive = "running" /\ Idle) =>
        \A b \in owned :
            ENABLED (\E f \in FreeFns : FreeCall(f, b) /\ b \notin owned')

\* C13: initialize_with_config (auth and general) called with a well-formed
\* blob returns, leaves every top-level entry of the blob in the global
\* configuration store whether or not a plugin is registered, and answers
\* true exactly when a plugin is registered after the call.
C13_InitializeWithConfig ==
    [][(last'.fn = "initialize_with_config" /\ last'.payload = "object") =>
        /\ alive' = "running"
        /\ \E doc \in {d \in BootDocs : d.kind = "object"} :
              /\ ~globalConfig'.isnil
              /\ \A key \in DOMAIN doc.obj :
                    /\ key \in DOMAIN globalConfig'.m
                    /\ globalConfig'.m[key] = doc.obj[key]
              /\ globalConfig.isnil => globalConfig'.m = doc.obj
        /\ last'.ret = CBool(Held' # Nil)]_vars

C15_BoolGetters ==
    last.fn \in BoolGetters =>
        LET r == CASE last.fn = "GetPluginBool" ->
                        GetPluginConfigValue(globalConfig, last.key)
                   [] last.fn = "GetServerBool" ->
                        GetServerConfigValue(globalConfig, last.key)
                   [] last.fn = "GetConfigBool" ->
                        [found |-> EnvVarName(last.pluginType, last.key) \in DOMAIN env,
                         value |-> Getenv(env, EnvVarName(last.pluginType, last.key))]
                   [] OTHER -> GetConfigValue(globalConfig, last.key)
        IN last.b =
             /\ r.found
             /\ r.value \in UNION {LetterCases(w) :
                                     w \in {<<"t", "r", "u", "e">>, <<"1">>,
                                            <<"y", "e", "s">>, <<"o", "n">>}}

\* GetServerBool answered true for a value written in mixed case
C15_Witness ==
    /\ last.fn = "GetServerBool"
    /\ last.b
    /\ GetServerConfigValue(globalConfig, "k").found
    /\ GetServerConfigValue(globalConfig, "k").value = <<"Y", "e", "S">>

\* C16: GetConfigValue resolves a key by searching plugin_config, then
\* server_config, then the raw top level of the blob; it returns the first
\* value found, and not-found only when the key is in none of the three.
C16_SectionPrecedence ==
    last.fn = "GetConfigValue" =>
        LET plugin == SectionLookup(globalConfig, "plugin_config", last.key)
            server == SectionLookup(globalConfig, "server_config", last.key)
            top == IF /\ ~globalConfig.isnil
                      /\ last.key \in DOMAIN globalConfig.m
                      /\ globalConfig.m[last.key].t = "str"
                   THEN [value |-> globalConfig.m[last.key].s, found |-> TRUE]
                   ELSE [value |-> "", found |-> FALSE]
            first == IF plugin.found THEN plugin
                     ELSE IF server.found THEN server ELSE top
        IN /\ last.found = first.found
           /\ last.value = first.value

\* C17: over the map-backed provider, cache_set(k, v) stores v under k and a
\* cache_get(k) of a stored key hands back v (raw or as a JSON string), a
\* text no other stored value and no miss would produce; cache_delete(k)
\* removes k and cache_exists(k) of a key that is not stored returns false.
C17_CacheRoundTrip ==
    (last.fn \in {f.name : f \in RefFns} /\ last.invoked # Nil) =>
        LET GetText(v) == CacheExport(CHOOSE f \in RefFns : f.name = "cache_get",
                                      RefProvider, "text",
                                      Outcome("ok", NoStr, TRUE, GoStr("", v), "nil")).ret
        IN /\ last.fn = "cache_set" =>
                 last.key \in DOMAIN store /\ store[last.key] = last.value
           /\ (last.fn = "cache_get" /\ last.key \in DOMAIN store) =>
                 /\ last.ret.str \in
                       {CCString(GoStr("", store[last.key])),
                        CCString(GoStr("", JsonQuote(store[last.key])))}
                 /\ \A w \in RefValues :
                       GetText(w) = last.ret => w = store[last.key]
                 /\ last.ret # CharPtr(CCString(Lit("null")))
           /\ last.fn = "cache_delete" => last.key \notin DOMAIN store
           /\ (last.fn = "cache_exists" /\ last.key \notin DOMAIN store) =>
                 last.ret = CharPtr(CCString(Lit("false")))

\* C18: no change a caller makes to the map it got from GetGlobalConfig, at
\* the top level or inside a section, changes what GetConfigValue,
\* GetPluginConfigValue and GetServerConfigValue return.
C18_CopyPreventsModification ==
    [][last'.fn = "mutate" =>
          \A key \in CfgKeys :
              /\ GetConfigValue(globalConfig', key) = GetConfigValue(globalConfig, key)
              /\ GetPluginConfigValue(globalConfig', key) =
                    GetPluginConfigValue(globalConfig, key)
              /\ GetServerConfigValue(globalConfig', key) =
                    GetServerConfigValue(globalConfig, key)]_vars

\* C19: once a SetConfigFromJSON call has succeeded, LoadConfigAndSetEnvVars,
\* LoadGeneralPluginConfig and LoadAllGeneralPluginConfigs return success
\* whatever file is on disk and change no environment variable; before
\* that they do what the file-based loader does.
C19_FileOnlyFallback ==
    [][last'.fn \in {"LoadConfigAndSetEnvVars", "LoadGeneralPluginConfig",
                     "LoadAllGeneralPluginConfigs"} =>
          IF pushed
          THEN ~last'.err /\ env' = env
          ELSE LET r == IF last'.fn = "LoadConfigAndSetEnvVars"
                        THEN FileLoadConfigAndSetEnvVars(yamlFile, last'.pluginType, env)
                        ELSE FileLoadGeneralPluginConfig(yamlFile, env)
               IN last'.err = r.err /\ env' = r.env]_vars

\* C20: under any interleaving of concurrent init_plugin,
\* initialize_with_config and cleanup_plugin calls on one exported plugin,
\* plugin.Initialize() is called and returns only while isInitialized is
\* false and plugin.Cleanup() only while it is true, so successful
\* Initialize and Cleanup calls alternate, starting with Initialize; a call
\* that finds nothing to do returns 1 without calling the plugin.
C20_LifecycleAlternates ==
    [][\A t \in Threads :
          LET before == threads[t]
              after == threads'[t]
              wanted == before.op = "cleanup_plugin"
          IN /\ (before.pc = "call" /\ after.pc = "inPlugin") =>
                   isInitialized = wanted
             /\ (before.pc = "inPlugin" /\ after.pc = "idle") =>
                   /\ isInitialized = wanted
                   /\ after.ret = LifeRet(before.op, TRUE) =>
                         isInitialized' = ~wanted
             /\ (before.pc = "locked" /\ after.pc = "idle"
                   /\ before.op # "initialize_with_config") =>
                   /\ isInitialized = ~wanted
                   /\ after.ret = CInt(TRUE)
                   /\ isInitialized' = isInitialized
             /\ (before.pc = "locked" /\ after.pc = "call") =>
                   isInitialized = wanted]_vars

\* one thread is inside plugin.Cleanup() of an initialized plugin while
\* the other waits for the lock to initialize
C20_Witness ==
    /\ isInitialized
    /\ \E t, u \in Threads :
          /\ threads[t].pc = "inPlugin" /\ threads[t].op = "cleanup_plugin"
          /\ threads[u].pc = "got" /\ threads[u].op = "init_plugin"

\* C21: in a general library the isInitialized flag changes only when
\* plugin.Initialize() or plugin.Cleanup() returned true: an Initialize()
\* that returns false leaves the flag false and the export returns 0 /
\* false, a Cleanup() that returns false leaves it true and the export
\* returns 0, and no other call changes the flag.
C21_FlagFollowsSuccess ==
    [][kind = "general" =>
          /\ (last'.op = "Initialize" /\ last'.t = "ok" /\ ~last'.ret.b) =>
                /\ ~isInitialized /\ ~isInitialized'
                /\ last'.ret \in {CInt(FALSE), CBool(FALSE)}
                /\ pluginInstance' = last'.invoked
          /\ (last'.op = "Cleanup" /\ last'.t = "ok" /\ ~last'.ret.b) =>
                /\ isInitialized /\ isInitialized'
                /\ last'.ret = CInt(FALSE)
                /\ pluginInstance' = last'.invoked
          /\ isInitialized' # isInitialized =>
                /\ last'.t = "ok" /\ last'.ret.b
                /\ last'.op = (IF isInitialized' THEN "Initialize" ELSE "Cleanup")]_vars

\* init_plugin called Initialize(), which returned false
C21_Witness ==
    /\ kind = "general"
    /\ last.fn = "init_plugin" /\ last.op = "Initialize"
    /\ last.t = "ok" /\ last.ret = CInt(FALSE)
    /\ ~isInitialized

AuthFnOf(c) == CHOOSE f \in AuthEnvelopeFns : f.name = c.fn

EventOf(c) == CHOOSE ev \in GeneralEvents : ev.name = c.fn

\* C24: an on_<event> export returns 0 and calls no callback when no plugin
\* is exported, when the payload pointer is null or when the payload does not
\* decode; otherwise it calls the one callback that matches the event on the
\* exported plugin and returns 1 exactly when that callback returned true (0
\* when it returned false; a callback that panics does not return).
C24_EventDispatch ==
    (kind = "general" /\ last.fn \in {ev.name : ev \in GeneralEvents}) =>
        LET ev == EventOf(last)
            rejected == \/ last.got = Nil
                        \/ last.payload = "null"
                        \/ last.payload \in {"empty", "malformed"}
        IN /\ rejected =>
                /\ last.ret = CInt(FALSE)
                /\ last.invoked = Nil
                /\ last.op = ""
           /\ ~rejected =>
                /\ last.invoked = last.got
                /\ last.got = pluginInstance
                /\ last.op = ev.op
                /\ (last.ret = CInt(TRUE)) <=> last.said
                /\ (last.t = "ok" /\ ~last.said) => (last.ret = CInt(FALSE))

\* on_user_assigned_to_organization delivered to the exported plugin, whose
\* callback returned true, and answered with 1
C24_Witness ==
    /\ kind = "general" /\ last.fn = "on_user_assigned_to_organization"
    /\ last.payload = "wellformed" /\ last.invoked = pluginInstance
    /\ last.op = "OnUserAssignedToOrganization"
    /\ last.said /\ last.ret = CInt(TRUE)

\* ------------------------------------------------------------------ C25
\* the auth and storage libraries with the cleaned-up instance remembered
Cleaned ==
    /\ cleaned' = CASE last'.fn = "cleanup_plugin" /\ last'.invoked # Nil
                         -> last'.invoked
                     [] last'.fn \in {"RegisterPlugin", "ExportPlugin"} -> Nil
                     [] OTHER -> cleaned
    /\ UNCHANGED <<owned, store, returned, pushed, exported, inited>>

InitClean == Init /\ kind \in {"auth", "storage"}

NextClean ==
    \/ RegistryApi /\ Cleaned
    \/ AuthExports /\ Cleaned
    \/ StorageExports /\ Cleaned
    \/ Return

SpecClean == InitClean /\ [][NextClean]_vars

\* C25: cleanup_plugin of an auth or storage library calls Cleanup on the
\* instance GetRegisteredPlugin() returned and answers true exactly when there
\* is such an instance and Cleanup returned no error; the slot still holds
\* that instance afterwards, and until a registration replaces it every later
\* export gets the same instance from the slot (initialize_with_config may
\* return on its configuration before it looks at the slot), runs no factory
\* and calls no other instance.
C25_CleanupKeepsInstance ==
    [][/\ last'.fn = "cleanup_plugin" =>
            /\ (last'.ret = CBool(TRUE)) <=> (last'.got # Nil /\ last'.t = "ok")
            /\ last'.got # Nil =>
                  /\ last'.invoked = last'.got
                  /\ last'.op = "Cleanup"
                  /\ registeredPlugin' = last'.got
                  /\ cleaned' = last'.got
            /\ registeredPlugin # Nil =>
                  /\ last'.got = registeredPlugin
                  /\ last'.lazy.status = "none"
       /\ cleaned' # Nil => registeredPlugin' = cleaned'
       /\ (cleaned # Nil /\ last'.fn \notin ApiCalls) =>
            /\ last'.got \in {Nil, cleaned}
            /\ last'.fn # "initialize_with_config" => last'.got = cleaned
            /\ last'.lazy.status = "none"
            /\ last'.invoked \in {Nil, cleaned}
            /\ registeredPlugin' = cleaned]_vars

\* an export reaching the instance an earlier cleanup_plugin cleaned up
C25_Witness ==
    /\ cleaned # Nil /\ registeredPlugin = cleaned
    /\ last.fn \notin ApiCalls \cup {"cleanup_plugin"}
    /\ last.invoked = cleaned /\ last.lazy.status = "none"

\* ------------------------------------------------------------------ C26
\* C26: in a general library isInitialized = true means that the plugin in
\* the slot is the one whose Initialize() returned true last, with no Cleanup
\* of it returning true since.
C26_FlagMeansCurrentInstance ==
    (kind = "general" /\ alive = "running") =>
        /\ isInitialized => (inited # Nil /\ pluginInstance = inited)
        /\ ~isInitialized => inited = Nil

\* ------------------------------------------------------------------ C27
\* C27: an on_<event> export delivers to the exported plugin whatever
\* isInitialized is: with a plugin in the slot and a payload that decodes the
\* callback is called before any successful initialisation and after a
\* successful cleanup_plugin alike, and the call leaves isInitialized as it
\* was.
C27_EventsIgnoreInitFlag ==
    [][(kind = "general" /\ last'.fn \in {ev.name : ev \in GeneralEvents}) =>
         /\ isInitialized' = isInitialized
         /\ (pluginInstance # Nil /\ last'.payload = "wellformed") =>
               /\ last'.invoked = pluginInstance
               /\ last'.op = EventOf(last').op]_vars

\* an event delivered to a plugin that is not initialized
C27_Witness ==
    /\ kind = "general" /\ ~isInitialized
    /\ last.fn = "on_user_created" /\ last.invoked = pluginInstance
    /\ last.op = "OnUserCreated" /\ last.t = "ok"

\* ------------------------------------------------------------------ C28
\* C28: with plugin methods that call no export of the library, every call
\* of ExportPlugin, init_plugin, initialize_with_config, cleanup_plugin, an
\* on_<event> export, a config getter or config.SetConfigFromJSON that has
\* started comes to its end in every interleaving (or the process ends with a
\* plugin's panic): no goroutine waits for a mutex for ever. A goroutine that
\* asks for pluginMutex.Lock() holds no lock, getPlugin's read lock included,
\* and none that asks for pluginMutex holds configMutex.
C28_EveryCallTerminates ==
    /\ \A t \in Threads :
          (threads[t].pc # "idle") ~> (threads[t].pc = "idle" \/ alive # "running")
    /\ [](\A t \in Threads :
            /\ threads[t].pc \in {"lockP", "waitP"} => threads[t].held = {}
            /\ threads[t].pc \in {"getPlugin", "lockP", "waitP"} =>
                  \A mode \in {"r", "w"} : <<"C", mode>> \notin threads[t].held)

\* initialize_with_config holds pluginMutex and waits for configMutex, which
\* a config getter of the other goroutine holds for reading
C28_Witness ==
    \E t, u \in Threads :
        /\ threads[t].op = "initialize_with_config"
        /\ threads[t].held = {<<"P", "w">>} /\ threads[t].pending = "C"
        /\ threads[u].held = {<<"C", "r">>}

\* ------------------------------------------------------------------ C29
\* C29: over the global config the getters of a BasePluginConfig agree on
\* whether a key is present: GetConfigOrDefault(key, d) returns the stored
\* value exactly when GetConfigOptional(key) reports found and d exactly when
\* it reports not found, GetConfig(key) returns an error exactly when
\* GetConfigOptional reports not found, and what GetConfigOptional reports is
\* the plugin_config entry of the composed key UPPER(plugin_type)_UPPER(key).
C29_GetterFamilyAgrees ==
    (last.fn \in {"GetConfig", "GetConfigOptional", "GetConfigOrDefault"}) =>
        LET c == NewBasePluginConfig(last.pluginType)
            o == BaseGetConfigOptional(c, globalConfig, last.key)
            stored == GetPluginConfigValue(
                          globalConfig, <<ToUpper(last.pluginType), ToUpper(last.key)>>)
        IN /\ o.found = stored.found
           /\ o.found => o.value = stored.value
           /\ last.fn = "GetConfigOptional" =>
                (last.got.ok = o.found /\ last.got.value = o.value)
           /\ last.fn = "GetConfig" =>
                /\ last.got.ok = o.found
                /\ o.found => last.got.value = o.value
           /\ last.fn = "GetConfigOrDefault" =>
                last.got.value = (IF o.found THEN o.value ELSE last.d)

\* ------------------------------------------------------------------ C30
\* C30: for every TTL s of the unsigned word, DurationToSeconds(
\* SecondsToDuration(s)) = s and the duration in between is s seconds exactly,
\* with no wrap-around and no negative value; no TTL gives no duration and
\* back; cache_set and cache_set_multiple hand the provider that duration.
C30_TtlRoundTrip ==
    /\ last.fn = "DurationToSeconds" =>
          /\ last.back = last.ttl
          /\ last.duration.null = last.ttl.null
          /\ ~last.ttl.null => /\ last.duration.v >= 0
                               /\ last.duration.v = last.ttl.v * Second
    /\ (last.fn \in {"cache_set", "cache_set_multiple"} /\ last.invoked # Nil) =>
          /\ last.duration.null = last.ttl.null
          /\ ~last.ttl.null => /\ last.duration.v >= 0
                               /\ last.duration.v = last.ttl.v * Second

====
